---- MODULE Spec2Model ----
(***************************************************************************)
(* Rule-expression evaluation of lib/common/rules.c: date expressions      *)
(* (in_range, gt, lt, date_spec), date specifications and durations.       *)
(*                                                                         *)
(* Representation.  A pointer is a sequence of length at most one: <<>> is *)
(* NULL and <<x>> points to x.  A crm_time_t object is the number of       *)
(* seconds since EpochYear-01-01 00:00:00, or UndefinedTime for the        *)
(* all-zero object crm_time_is_defined() rejects.  An XML attribute is     *)
(* NULL or a pointer to its string value.                                  *)
(***************************************************************************)
EXTENDS Integers, Sequences, FiniteSets, TLC

(***************************************************************************)
(* Bounds of the model.                                                    *)
(***************************************************************************)
\* instants 0..MaxTime are the start, end and now of the range operations
MaxTime == 4
\* a date specification has at most MaxFields range attributes set
MaxFields == 2
\* a duration component adds at most MaxAmount units
MaxAmount == 1
\* the longest operand string compared
MaxOperand == 2
\* the longest template expanded
MaxTemplate == 3
\* the most parameter elements in an agent's metadata
MaxParams == 2

(***************************************************************************)
(* Return codes (include/crm/common/results.h), kept apart by name.        *)
(***************************************************************************)
pcmk_rc_ok == "ok"
pcmk_rc_within_range == "within_range"
pcmk_rc_before_range == "before_range"
pcmk_rc_after_range == "after_range"
pcmk_rc_undetermined == "undetermined"
pcmk_rc_unpack_error == "unpack_error"
pcmk_rc_bad_input == "bad_input"
EINVAL == "EINVAL"

NULL == <<>>
Ptr(x) == <<x>>

\* the all-zero crm_time_t, which compares before every real instant
UndefinedTime == -1

(***************************************************************************)
(* Calendar (lib/common/iso8601.c): decomposition of an instant.           *)
(***************************************************************************)
EpochYear == 2024
SecondsPerDay == 86400

crm_time_leapyear(y) == ((y % 4 = 0) /\ (y % 100 # 0)) \/ (y % 400 = 0)

year_days(y) == IF crm_time_leapyear(y) THEN 366 ELSE 365

crm_time_days_in_month(m, y) ==
    IF m = 2 THEN (IF crm_time_leapyear(y) THEN 29 ELSE 28)
    ELSE IF m \in {4, 6, 9, 11} THEN 30 ELSE 31

\* <<year, day of year>> of the day that is d days after January 1 of year y
RECURSIVE OrdinalFrom(_, _)
OrdinalFrom(y, d) ==
    IF d < year_days(y) THEN <<y, d + 1>>
    ELSE OrdinalFrom(y + 1, d - year_days(y))

\* year and day of year (1..366)
crm_time_get_ordinal(t) == OrdinalFrom(EpochYear, t \div SecondsPerDay)

\* <<month, day of month>> of day d (1-based) counted from the first of m
RECURSIVE MonthFrom(_, _, _)
MonthFrom(y, m, d) ==
    IF d <= crm_time_days_in_month(m, y) THEN <<m, d>>
    ELSE MonthFrom(y, m + 1, d - crm_time_days_in_month(m, y))

\* year, month (1..12), day of month (1..31)
crm_time_get_gregorian(t) ==
    LET o == crm_time_get_ordinal(t)
        md == MonthFrom(o[1], 1, o[2])
    IN  <<o[1], md[1], md[2]>>

\* hour, minute, second
crm_time_get_timeofday(t) ==
    LET s == t % SecondsPerDay
    IN  <<s \div 3600, (s % 3600) \div 60, s % 60>>

\* weekday (1 = Monday .. 7 = Sunday) of January 1 of year y
crm_time_january1_weekday(y) ==
    LET YY == (y - 1) % 100
        C == (y - 1) - YY
        G == YY + (YY \div 4)
    IN  1 + ((((((C \div 100) % 4) * 5) + G) % 7))

crm_time_weeks_in_year(y) ==
    IF crm_time_january1_weekday(y) = 4 THEN 53
    ELSE IF crm_time_january1_weekday(y + 1) = 5 THEN 53 ELSE 52

\* ISO 8601 week year, week (1..53), weekday (1..7)
crm_time_get_isoweek(t) ==
    LET o == crm_time_get_ordinal(t)
        years == o[1]
        days == o[2]
        jan1 == crm_time_january1_weekday(years)
        h == days + jan1 - 1
        d == 1 + ((h - 1) % 7)
        inPrev == (days <= 8 - jan1) /\ (jan1 > 4)
        inNext == (~inPrev) /\ ((year_days(years) - days) < (4 - d))
        j == days + (7 - d) + (jan1 - 1)
    IN  IF inPrev THEN <<years - 1, crm_time_weeks_in_year(years - 1), d>>
        ELSE IF inNext THEN <<years + 1, 1, d>>
        ELSE <<years, IF jan1 > 4 THEN (j \div 7) - 1 ELSE j \div 7, d>>

\* rules.c: phase of the moon, 0 = new moon .. 7 = full moon; the uint32_t
\* operands stay far below 2^32 and (x & 7) of a non-negative x is x % 8
phase_of_the_moon(now) ==
    LET o == crm_time_get_ordinal(now)
        y == o[1]
        diy == o[2]
        goldn == (y % 19) + 1
        epact0 == ((11 * goldn) + 18) % 30
        epact == IF ((epact0 = 25) /\ (goldn > 11)) \/ (epact0 = 24)
                 THEN epact0 + 1 ELSE epact0
    IN  ((((((diy + epact) * 6) + 11) % 177) \div 22)) % 8

(***************************************************************************)
(* Range strings (lib/common/strings.c).  A string is a sequence of        *)
(* one-character strings.                                                  *)
(***************************************************************************)
DigitValue == [c \in {"0", "1", "2", "3", "4", "5", "6", "7", "8", "9"} |->
                 CASE c = "0" -> 0 [] c = "1" -> 1 [] c = "2" -> 2
                   [] c = "3" -> 3 [] c = "4" -> 4 [] c = "5" -> 5
                   [] c = "6" -> 6 [] c = "7" -> 7 [] c = "8" -> 8
                   [] c = "9" -> 9]

isdigit(c) == c \in DOMAIN DigitValue

\* value of the decimal digits s, most significant first, continuing acc
RECURSIVE DecimalValue(_, _)
DecimalValue(s, acc) ==
    IF s = <<>> THEN acc
    ELSE DecimalValue(Tail(s), (acc * 10) + DigitValue[Head(s)])

\* length of the longest prefix of s made of digits
RECURSIVE DigitPrefix(_)
DigitPrefix(s) ==
    IF (s = <<>>) \/ ~isdigit(Head(s)) THEN 0 ELSE 1 + DigitPrefix(Tail(s))

\* the value pcmk__parse_ll_range() leaves in a bound that was not given
PCMK__PARSE_INT_DEFAULT == -1

\* "N", "N-M", "-M" or "N-" with N <= M; anything else is not a range
pcmk__parse_ll_range(srcstring) ==
    LET bad == [rc |-> pcmk_rc_bad_input,
                low |-> PCMK__PARSE_INT_DEFAULT,
                high |-> PCMK__PARSE_INT_DEFAULT]
        n == DigitPrefix(srcstring)
        first == SubSeq(srcstring, 1, n)
        rest == SubSeq(srcstring, n + 1, Len(srcstring))
    IN  IF (srcstring = <<>>) \/ (srcstring = <<"-">>) THEN bad
        ELSE IF Head(srcstring) = "-" THEN
            \* no beginning: the rest must be one number
            IF DigitPrefix(Tail(srcstring)) = Len(srcstring) - 1
            THEN [rc |-> pcmk_rc_ok, low |-> PCMK__PARSE_INT_DEFAULT,
                  high |-> DecimalValue(Tail(srcstring), 0)]
            ELSE bad
        ELSE IF n = 0 THEN bad
        ELSE IF rest = <<>> THEN
            \* a single number is both bounds
            [rc |-> pcmk_rc_ok, low |-> DecimalValue(first, 0),
             high |-> DecimalValue(first, 0)]
        ELSE IF Head(rest) # "-" THEN bad
        ELSE IF Tail(rest) = <<>> THEN
            [rc |-> pcmk_rc_ok, low |-> DecimalValue(first, 0),
             high |-> PCMK__PARSE_INT_DEFAULT]
        ELSE IF DigitPrefix(Tail(rest)) # Len(rest) - 1 THEN bad
        ELSE IF DecimalValue(first, 0) > DecimalValue(Tail(rest), 0) THEN bad
        ELSE [rc |-> pcmk_rc_ok, low |-> DecimalValue(first, 0),
              high |-> DecimalValue(Tail(rest), 0)]

(***************************************************************************)
(* Date specifications.  A date_spec element is a function from the range  *)
(* attribute names to attribute values (NULL when the attribute is not     *)
(* set).                                                                   *)
(***************************************************************************)
\* the ranges[] table of pcmk__evaluate_date_spec(), in its order
RangeAttrs == <<"years", "months", "monthdays", "hours", "minutes",
                "seconds", "yeardays", "weekyears", "weeks", "weekdays",
                "moon">>

\* ranges[i].value for each i, as the crm_time_get_*() calls fill them in
RangeValues(now) ==
    LET g == crm_time_get_gregorian(now)
        tod == crm_time_get_timeofday(now)
        o == crm_time_get_ordinal(now)
        w == crm_time_get_isoweek(now)
    IN  <<o[1], g[2], g[3], tod[1], tod[2], tod[3], o[2], w[1], w[2], w[3],
          phase_of_the_moon(now)>>

check_range_invalid_fails(date_spec, attr, value) ==
    LET range == date_spec[attr]
        r == pcmk__parse_ll_range(range[1])
    IN  IF range = NULL THEN pcmk_rc_ok
        ELSE IF r.rc # pcmk_rc_ok THEN pcmk_rc_before_range
        ELSE IF (r.low # -1) /\ (value < r.low) THEN pcmk_rc_before_range
        ELSE IF (r.high # -1) /\ (value > r.high) THEN pcmk_rc_after_range
        ELSE pcmk_rc_ok

check_range_low_exclusive(date_spec, attr, value) ==
    LET range == date_spec[attr]
        r == pcmk__parse_ll_range(range[1])
    IN  IF range = NULL THEN pcmk_rc_ok
        ELSE IF r.rc # pcmk_rc_ok THEN pcmk_rc_ok
        ELSE IF (r.low # -1) /\ (value <= r.low) THEN pcmk_rc_before_range
        ELSE IF (r.high # -1) /\ (value > r.high) THEN pcmk_rc_after_range
        ELSE pcmk_rc_ok

check_range(date_spec, attr, value) ==
    LET range == date_spec[attr]
        r == pcmk__parse_ll_range(range[1])
    IN  IF range = NULL THEN pcmk_rc_ok
        ELSE IF r.rc # pcmk_rc_ok THEN pcmk_rc_ok
        ELSE IF (r.low # -1) /\ (value < r.low) THEN pcmk_rc_before_range
        ELSE IF (r.high # -1) /\ (value > r.high) THEN pcmk_rc_after_range
        ELSE pcmk_rc_ok

RECURSIVE CheckRangesFrom_no_stop(_, _, _)
CheckRangesFrom_no_stop(date_spec, values, i) ==
    IF i > Len(RangeAttrs) THEN pcmk_rc_ok
    ELSE LET later == CheckRangesFrom_no_stop(date_spec, values, i + 1)
         IN  IF later # pcmk_rc_ok THEN later
             ELSE check_range(date_spec, RangeAttrs[i], values[i])

\* the loop over ranges[] from index i on
RECURSIVE CheckRangesFrom(_, _, _)
CheckRangesFrom(date_spec, values, i) ==
    IF i > Len(RangeAttrs) THEN pcmk_rc_ok
    ELSE LET rc == check_range(date_spec, RangeAttrs[i], values[i])
         IN  IF rc # pcmk_rc_ok THEN rc
             ELSE CheckRangesFrom(date_spec, values, i + 1)

pcmk__evaluate_date_spec(date_spec, now) ==
    IF (date_spec = NULL) \/ (now = NULL) THEN EINVAL
    ELSE CheckRangesFrom(date_spec[1], RangeValues(now[1]), 1)

(***************************************************************************)
(* Strings compared without regard to case (pcmk__str_eq with              *)
(* pcmk__str_casei).                                                       *)
(***************************************************************************)
UpperCase == <<"A", "B", "C", "D", "E", "F", "G", "H", "I", "J", "K", "L",
               "M", "N", "O", "P", "Q", "R", "S", "T", "U", "V", "W", "X",
               "Y", "Z">>
LowerCase == <<"a", "b", "c", "d", "e", "f", "g", "h", "i", "j", "k", "l",
               "m", "n", "o", "p", "q", "r", "s", "t", "u", "v", "w", "x",
               "y", "z">>

tolower(c) ==
    IF \E i \in DOMAIN UpperCase : UpperCase[i] = c
    THEN LowerCase[CHOOSE i \in DOMAIN UpperCase : UpperCase[i] = c]
    ELSE c

\* s1 is a pointer to a string (or NULL), s2 a string
pcmk__str_eq(s1, s2, null_matches, casei) ==
    IF s1 = NULL THEN null_matches
    ELSE IF casei
         THEN /\ Len(s1[1]) = Len(s2)
              /\ \A i \in 1..Len(s2) : tolower(s1[1][i]) = tolower(s2[i])
         ELSE s1[1] = s2

PCMK_VALUE_IN_RANGE == <<"i", "n", "_", "r", "a", "n", "g", "e">>
PCMK_VALUE_DATE_SPEC == <<"d", "a", "t", "e", "_", "s", "p", "e", "c">>
PCMK_VALUE_GT == <<"g", "t">>
PCMK_VALUE_LT == <<"l", "t">>

(***************************************************************************)
(* Arithmetic on instants (lib/common/iso8601.c).                          *)
(***************************************************************************)
crm_time_is_defined(t) == t # UndefinedTime

crm_time_compare(a, b) == IF a < b THEN -1 ELSE IF a > b THEN 1 ELSE 0

\* days from January 1 of EpochYear to January 1 of year y
RECURSIVE DaysBeforeYear(_)
DaysBeforeYear(y) ==
    IF y <= EpochYear THEN 0 ELSE DaysBeforeYear(y - 1) + year_days(y - 1)

\* days from January 1 of year y to the first of month m
RECURSIVE DaysBeforeMonth(_, _)
DaysBeforeMonth(y, m) ==
    IF m <= 1 THEN 0
    ELSE DaysBeforeMonth(y, m - 1) + crm_time_days_in_month(m - 1, y)

crm_time_add_seconds(t, extra) == t + extra
crm_time_add_minutes(t, extra) == t + (extra * 60)
crm_time_add_hours(t, extra) == t + (extra * 3600)
crm_time_add_days(t, extra) == t + (extra * SecondsPerDay)
crm_time_add_weeks(t, extra) == t + (extra * 7 * SecondsPerDay)

\* the month moves, the day of the month is clipped to the new month
crm_time_add_months(t, extra) ==
    LET g == crm_time_get_gregorian(t)
        months == (g[2] - 1) + extra
        y == g[1] + (months \div 12)
        m == (months % 12) + 1
        d == IF g[3] > crm_time_days_in_month(m, y)
             THEN crm_time_days_in_month(m, y) ELSE g[3]
    IN  ((DaysBeforeYear(y) + DaysBeforeMonth(y, m) + (d - 1)) * SecondsPerDay)
        + (t % SecondsPerDay)

\* the year moves, the day of the year stays
crm_time_add_years(t, extra) ==
    LET o == crm_time_get_ordinal(t)
    IN  ((DaysBeforeYear(o[1] + extra) + (o[2] - 1)) * SecondsPerDay)
        + (t % SecondsPerDay)

\* target and source are pointers to instants; the result is *target
pcmk__set_time_if_earlier(target, source) ==
    IF /\ target # NULL
       /\ source # NULL
       /\ \/ ~crm_time_is_defined(target[1])
          \/ crm_time_compare(source[1], target[1]) < 0
    THEN source
    ELSE target

(***************************************************************************)
(* Numbers and dates in XML attributes.                                    *)
(***************************************************************************)
\* text is a pointer to a string; NULL gives the default
pcmk__scan_ll(text, default) ==
    IF text = NULL THEN [rc |-> pcmk_rc_ok, result |-> default]
    ELSE LET str == text[1]
             neg == (str # <<>>) /\ (Head(str) = "-")
             digits == IF neg THEN Tail(str) ELSE str
         IN  IF (digits = <<>>) \/ (DigitPrefix(digits) # Len(digits))
             THEN [rc |-> pcmk_rc_bad_input, result |-> default]
             ELSE [rc |-> pcmk_rc_ok,
                   result |-> IF neg THEN 0 - DecimalValue(digits, 0)
                              ELSE DecimalValue(digits, 0)]

\* A date/time string is modelled by what parsing it gives: the instant t
\* it denotes, or nothing when it is not a date/time.
DateString(t) == [valid |-> TRUE, t |-> t]
NotADate == [valid |-> FALSE, t |-> 0]

\* the return code and the instant stored through the out parameter
pcmk__xe_get_datetime(xml, attr) ==
    LET value == xml[attr]
    IN  IF value = NULL THEN [rc |-> pcmk_rc_ok, t |-> NULL]
        ELSE IF value[1].valid
             THEN [rc |-> pcmk_rc_ok, t |-> Ptr(value[1].t)]
             ELSE [rc |-> pcmk_rc_unpack_error, t |-> NULL]

(***************************************************************************)
(* Durations.  A duration element is a function from the component         *)
(* attribute names to attribute values.                                    *)
(***************************************************************************)
\* the components in the order pcmk__unpack_duration() adds them
TimeComponents == <<"years", "months", "weeks", "days", "hours", "minutes",
                    "seconds">>

AddComponent(t, component, value) ==
    CASE component = "years" -> crm_time_add_years(t, value)
      [] component = "months" -> crm_time_add_months(t, value)
      [] component = "weeks" -> crm_time_add_weeks(t, value)
      [] component = "days" -> crm_time_add_days(t, value)
      [] component = "hours" -> crm_time_add_hours(t, value)
      [] component = "minutes" -> crm_time_add_minutes(t, value)
      [] component = "seconds" -> crm_time_add_seconds(t, value)

\* t is an instant, xml a duration element; the result is the return code
\* and the new value of t
pcmk__add_time_from_xml(t, component, xml) ==
    LET v == pcmk__scan_ll(xml[component], 0)
    IN  IF v.rc # pcmk_rc_ok THEN [rc |-> pcmk_rc_unpack_error, t |-> t]
        ELSE IF v.result # 0
             THEN [rc |-> pcmk_rc_ok,
                   t |-> AddComponent(t, component, v.result)]
             ELSE [rc |-> pcmk_rc_ok, t |-> t]

\* mutant: the first component that fails ends the computation
RECURSIVE AddComponentsFrom_abort(_, _, _)
AddComponentsFrom_abort(duration, acc, i) ==
    IF i > Len(TimeComponents) THEN acc
    ELSE LET sub == pcmk__add_time_from_xml(acc.t, TimeComponents[i],
                                            duration)
         IN  IF sub.rc # pcmk_rc_ok THEN [rc |-> sub.rc, t |-> acc.t]
             ELSE AddComponentsFrom_abort(duration,
                                          [rc |-> acc.rc, t |-> sub.t],
                                          i + 1)

\* the ADD_COMPONENT() calls from component i on; acc is rc and *end
RECURSIVE AddComponentsFrom(_, _, _)
AddComponentsFrom(duration, acc, i) ==
    IF i > Len(TimeComponents) THEN acc
    ELSE LET sub == pcmk__add_time_from_xml(acc.t, TimeComponents[i],
                                            duration)
         IN  AddComponentsFrom(duration,
                               [rc |-> IF sub.rc # pcmk_rc_ok THEN sub.rc
                                       ELSE acc.rc,
                                t |-> sub.t],
                               i + 1)

\* duration and start are pointers; end is NULL or a pointer to the slot,
\* which holds NULL or a pointer to an instant.  The result is the return
\* code and the slot afterwards.
pcmk__unpack_duration(duration, start, end) ==
    IF (start = NULL) \/ (duration = NULL) \/ (end = NULL)
    THEN [rc |-> EINVAL, end |-> NULL]
    ELSE IF end[1] # NULL THEN [rc |-> EINVAL, end |-> end[1]]
    ELSE LET r == AddComponentsFrom(duration[1],
                                    [rc |-> pcmk_rc_ok, t |-> start[1]], 1)
         IN  [rc |-> r.rc, end |-> Ptr(r.t)]

(***************************************************************************)
(* Date expressions.  A date_expression element is a record of its         *)
(* attributes operation, start and end and of its first duration and       *)
(* date_spec children (NULL when there is none).  Each evaluation gives    *)
(* the return code and the instant *next_change holds afterwards.          *)
(***************************************************************************)
first_named_child(xml, name) == xml[name]

evaluate_in_range_no_second(date_expression, now, next_change) ==
    LET start == pcmk__xe_get_datetime(date_expression, "start").t
        end0 == pcmk__xe_get_datetime(date_expression, "end").t
        duration == first_named_child(date_expression, "duration")
        end == IF (end0 = NULL) /\ (duration # NULL)
               THEN pcmk__unpack_duration(duration, start, Ptr(NULL)).end
               ELSE end0
    IN  IF (start = NULL) /\ (end0 = NULL)
        THEN [rc |-> pcmk_rc_undetermined, next_change |-> next_change]
        ELSE IF (start # NULL) /\ (crm_time_compare(now[1], start[1]) < 0)
        THEN [rc |-> pcmk_rc_before_range,
              next_change |-> pcmk__set_time_if_earlier(next_change, start)]
        ELSE IF (end # NULL) /\ (crm_time_compare(now[1], end[1]) > 0)
        THEN [rc |-> pcmk_rc_after_range, next_change |-> next_change]
        ELSE IF (end # NULL) /\ (next_change # NULL)
        THEN [rc |-> pcmk_rc_within_range,
              next_change |-> pcmk__set_time_if_earlier(next_change, end)]
        ELSE [rc |-> pcmk_rc_within_range, next_change |-> next_change]

evaluate_in_range_exclusive(date_expression, now, next_change) ==
    LET start == pcmk__xe_get_datetime(date_expression, "start").t
        end0 == pcmk__xe_get_datetime(date_expression, "end").t
        duration == first_named_child(date_expression, "duration")
        end == IF (end0 = NULL) /\ (duration # NULL)
               THEN pcmk__unpack_duration(duration, start, Ptr(NULL)).end
               ELSE end0
    IN  IF (start = NULL) /\ (end0 = NULL)
        THEN [rc |-> pcmk_rc_undetermined, next_change |-> next_change]
        ELSE IF (start # NULL) /\ (crm_time_compare(now[1], start[1]) <= 0)
        THEN [rc |-> pcmk_rc_before_range,
              next_change |-> pcmk__set_time_if_earlier(next_change, start)]
        ELSE IF (end # NULL) /\ (crm_time_compare(now[1], end[1]) > 0)
        THEN [rc |-> pcmk_rc_after_range, next_change |-> next_change]
        ELSE IF (end # NULL) /\ (next_change # NULL)
        THEN [rc |-> pcmk_rc_within_range,
              next_change |->
                  pcmk__set_time_if_earlier(
                      next_change, Ptr(crm_time_add_seconds(end[1], 1)))]
        ELSE [rc |-> pcmk_rc_within_range, next_change |-> next_change]

evaluate_in_range(date_expression, now, next_change) ==
    LET start == pcmk__xe_get_datetime(date_expression, "start").t
        end0 == pcmk__xe_get_datetime(date_expression, "end").t
        duration == first_named_child(date_expression, "duration")
        \* end is start plus the duration when there is no usable end
        end == IF (end0 = NULL) /\ (duration # NULL)
               THEN pcmk__unpack_duration(duration, start, Ptr(NULL)).end
               ELSE end0
    IN  IF (start = NULL) /\ (end0 = NULL)
        THEN [rc |-> pcmk_rc_undetermined, next_change |-> next_change]
        ELSE IF (start # NULL) /\ (crm_time_compare(now[1], start[1]) < 0)
        THEN [rc |-> pcmk_rc_before_range,
              next_change |-> pcmk__set_time_if_earlier(next_change, start)]
        ELSE IF (end # NULL) /\ (crm_time_compare(now[1], end[1]) > 0)
        THEN [rc |-> pcmk_rc_after_range, next_change |-> next_change]
        ELSE IF (end # NULL) /\ (next_change # NULL)
        \* evaluation doesn't change until second after end
        THEN [rc |-> pcmk_rc_within_range,
              next_change |->
                  pcmk__set_time_if_earlier(
                      next_change, Ptr(crm_time_add_seconds(end[1], 1)))]
        ELSE [rc |-> pcmk_rc_within_range, next_change |-> next_change]

evaluate_gt_inclusive(date_expression, now, next_change) ==
    LET s == pcmk__xe_get_datetime(date_expression, "start")
    IN  IF s.rc # pcmk_rc_ok
        THEN [rc |-> pcmk_rc_undetermined, next_change |-> next_change]
        ELSE IF s.t = NULL
        THEN [rc |-> pcmk_rc_undetermined, next_change |-> next_change]
        ELSE IF crm_time_compare(now[1], s.t[1]) >= 0
        THEN [rc |-> pcmk_rc_within_range, next_change |-> next_change]
        ELSE [rc |-> pcmk_rc_before_range,
              next_change |->
                  pcmk__set_time_if_earlier(
                      next_change, Ptr(crm_time_add_seconds(s.t[1], 1)))]

evaluate_gt_overwrite(date_expression, now, next_change) ==
    LET s == pcmk__xe_get_datetime(date_expression, "start")
    IN  IF s.rc # pcmk_rc_ok
        THEN [rc |-> pcmk_rc_undetermined, next_change |-> next_change]
        ELSE IF s.t = NULL
        THEN [rc |-> pcmk_rc_undetermined, next_change |-> next_change]
        ELSE IF crm_time_compare(now[1], s.t[1]) > 0
        THEN [rc |-> pcmk_rc_within_range, next_change |-> next_change]
        ELSE [rc |-> pcmk_rc_before_range,
              next_change |-> IF next_change = NULL THEN NULL
                              ELSE Ptr(crm_time_add_seconds(s.t[1], 1))]

evaluate_gt(date_expression, now, next_change) ==
    LET s == pcmk__xe_get_datetime(date_expression, "start")
    IN  IF s.rc # pcmk_rc_ok
        THEN [rc |-> pcmk_rc_undetermined, next_change |-> next_change]
        ELSE IF s.t = NULL
        THEN [rc |-> pcmk_rc_undetermined, next_change |-> next_change]
        ELSE IF crm_time_compare(now[1], s.t[1]) > 0
        THEN [rc |-> pcmk_rc_within_range, next_change |-> next_change]
        \* evaluation doesn't change until second after start time
        ELSE [rc |-> pcmk_rc_before_range,
              next_change |->
                  pcmk__set_time_if_earlier(
                      next_change, Ptr(crm_time_add_seconds(s.t[1], 1)))]

evaluate_lt_inclusive(date_expression, now, next_change) ==
    LET e == pcmk__xe_get_datetime(date_expression, "end")
    IN  IF e.rc # pcmk_rc_ok
        THEN [rc |-> pcmk_rc_undetermined, next_change |-> next_change]
        ELSE IF e.t = NULL
        THEN [rc |-> pcmk_rc_undetermined, next_change |-> next_change]
        ELSE IF crm_time_compare(now[1], e.t[1]) <= 0
        THEN [rc |-> pcmk_rc_within_range,
              next_change |-> pcmk__set_time_if_earlier(next_change, e.t)]
        ELSE [rc |-> pcmk_rc_after_range, next_change |-> next_change]

evaluate_lt_late_hint(date_expression, now, next_change) ==
    LET e == pcmk__xe_get_datetime(date_expression, "end")
    IN  IF e.rc # pcmk_rc_ok
        THEN [rc |-> pcmk_rc_undetermined, next_change |-> next_change]
        ELSE IF e.t = NULL
        THEN [rc |-> pcmk_rc_undetermined, next_change |-> next_change]
        ELSE IF crm_time_compare(now[1], e.t[1]) < 0
        THEN [rc |-> pcmk_rc_within_range,
              next_change |->
                  pcmk__set_time_if_earlier(
                      next_change, Ptr(crm_time_add_seconds(e.t[1], 1)))]
        ELSE [rc |-> pcmk_rc_after_range, next_change |-> next_change]

evaluate_lt(date_expression, now, next_change) ==
    LET e == pcmk__xe_get_datetime(date_expression, "end")
    IN  IF e.rc # pcmk_rc_ok
        THEN [rc |-> pcmk_rc_undetermined, next_change |-> next_change]
        ELSE IF e.t = NULL
        THEN [rc |-> pcmk_rc_undetermined, next_change |-> next_change]
        ELSE IF crm_time_compare(now[1], e.t[1]) < 0
        THEN [rc |-> pcmk_rc_within_range,
              next_change |-> pcmk__set_time_if_earlier(next_change, e.t)]
        ELSE [rc |-> pcmk_rc_after_range, next_change |-> next_change]

\* the dispatch on the operation attribute, for non-NULL arguments
\* mutant: lt merges its end into the hint whatever the verdict
EvaluateOperation_lt_hint(xml, now, next_change) ==
    IF pcmk__str_eq(xml.operation, PCMK_VALUE_LT, FALSE, TRUE)
    THEN LET r == evaluate_lt(xml, now, next_change)
             e == pcmk__xe_get_datetime(xml, "end")
         IN  IF e.t = NULL THEN r
             ELSE [rc |-> r.rc,
                   next_change |-> pcmk__set_time_if_earlier(next_change,
                                                             e.t)]
    ELSE IF pcmk__str_eq(xml.operation, PCMK_VALUE_GT, FALSE, TRUE)
    THEN evaluate_gt(xml, now, next_change)
    ELSE IF pcmk__str_eq(xml.operation, PCMK_VALUE_IN_RANGE, TRUE, TRUE)
    THEN evaluate_in_range(xml, now, next_change)
    ELSE [rc |-> pcmk_rc_undetermined, next_change |-> next_change]

EvaluateOperation(xml, now, next_change) ==
    LET op == xml["operation"]
        date_spec == first_named_child(xml, "date_spec")
    IN  IF pcmk__str_eq(op, PCMK_VALUE_IN_RANGE, TRUE, TRUE)
        THEN evaluate_in_range(xml, now, next_change)
        ELSE IF pcmk__str_eq(op, PCMK_VALUE_DATE_SPEC, FALSE, TRUE)
        THEN IF date_spec = NULL
             THEN [rc |-> pcmk_rc_undetermined, next_change |-> next_change]
             ELSE [rc |-> pcmk__evaluate_date_spec(date_spec, now),
                   next_change |-> next_change]
        ELSE IF pcmk__str_eq(op, PCMK_VALUE_GT, FALSE, TRUE)
        THEN evaluate_gt(xml, now, next_change)
        ELSE IF pcmk__str_eq(op, PCMK_VALUE_LT, FALSE, TRUE)
        THEN evaluate_lt(xml, now, next_change)
        ELSE [rc |-> pcmk_rc_undetermined, next_change |-> next_change]

pcmk__evaluate_date_expression_no_now(date_expression, now, next_change) ==
    IF date_expression = NULL
    THEN [rc |-> EINVAL, next_change |-> next_change]
    ELSE IF now = NULL
    THEN [rc |-> pcmk_rc_undetermined, next_change |-> next_change]
    ELSE EvaluateOperation(date_expression[1], now, next_change)

\* date_expression, now and next_change are pointers
pcmk__evaluate_date_expression(date_expression, now, next_change) ==
    IF (date_expression = NULL) \/ (now = NULL)
    THEN [rc |-> EINVAL, next_change |-> next_change]
    ELSE EvaluateOperation(date_expression[1], now, next_change)

(***************************************************************************)
(* Comparison operators and value types of node attribute expressions.     *)
(***************************************************************************)
PCMK_VALUE_DEFINED == <<"d", "e", "f", "i", "n", "e", "d">>
PCMK_VALUE_NOT_DEFINED == <<"n", "o", "t", "_", "d", "e", "f", "i", "n",
                            "e", "d">>
PCMK_VALUE_EQ == <<"e", "q">>
PCMK_VALUE_NE == <<"n", "e">>
PCMK_VALUE_LTE == <<"l", "t", "e">>
PCMK_VALUE_GTE == <<"g", "t", "e">>

PCMK_VALUE_STRING == <<"s", "t", "r", "i", "n", "g">>
PCMK_VALUE_INTEGER == <<"i", "n", "t", "e", "g", "e", "r">>
PCMK_VALUE_NUMBER == <<"n", "u", "m", "b", "e", "r">>
PCMK_VALUE_VERSION == <<"v", "e", "r", "s", "i", "o", "n">>

\* enum pcmk__comparison and enum pcmk__type
pcmk__comparison ==
    [unknown |-> "comparison_unknown", defined |-> "comparison_defined",
     undefined |-> "comparison_undefined", eq |-> "comparison_eq",
     ne |-> "comparison_ne", lt |-> "comparison_lt",
     lte |-> "comparison_lte", gt |-> "comparison_gt",
     gte |-> "comparison_gte"]

pcmk__type ==
    [unknown |-> "type_unknown", string |-> "type_string",
     integer |-> "type_integer", number |-> "type_number",
     version |-> "type_version"]

pcmk__str_casei == TRUE

\* op is a pointer to a string
pcmk__parse_comparison(op) ==
    IF pcmk__str_eq(op, PCMK_VALUE_DEFINED, FALSE, pcmk__str_casei)
    THEN pcmk__comparison.defined
    ELSE IF pcmk__str_eq(op, PCMK_VALUE_NOT_DEFINED, FALSE, pcmk__str_casei)
    THEN pcmk__comparison.undefined
    ELSE IF pcmk__str_eq(op, PCMK_VALUE_EQ, FALSE, pcmk__str_casei)
    THEN pcmk__comparison.eq
    ELSE IF pcmk__str_eq(op, PCMK_VALUE_NE, FALSE, pcmk__str_casei)
    THEN pcmk__comparison.ne
    ELSE IF pcmk__str_eq(op, PCMK_VALUE_LT, FALSE, pcmk__str_casei)
    THEN pcmk__comparison.lt
    ELSE IF pcmk__str_eq(op, PCMK_VALUE_LTE, FALSE, pcmk__str_casei)
    THEN pcmk__comparison.lte
    ELSE IF pcmk__str_eq(op, PCMK_VALUE_GT, FALSE, pcmk__str_casei)
    THEN pcmk__comparison.gt
    ELSE IF pcmk__str_eq(op, PCMK_VALUE_GTE, FALSE, pcmk__str_casei)
    THEN pcmk__comparison.gte
    ELSE pcmk__comparison.unknown

\* mutant: only the first value is searched for a decimal point
pcmk__parse_type_first_value(type, op, value1, value2) ==
    IF type = NULL
    THEN IF op \in {pcmk__comparison.lt, pcmk__comparison.lte,
                    pcmk__comparison.gt, pcmk__comparison.gte}
         THEN IF (value1 # NULL) /\ (\E i \in DOMAIN value1[1] :
                                           value1[1][i] = ".")
              THEN pcmk__type.number
              ELSE pcmk__type.integer
         ELSE pcmk__type.string
    ELSE IF pcmk__str_eq(type, PCMK_VALUE_STRING, FALSE, pcmk__str_casei)
    THEN pcmk__type.string
    ELSE IF pcmk__str_eq(type, PCMK_VALUE_INTEGER, FALSE, pcmk__str_casei)
    THEN pcmk__type.integer
    ELSE IF pcmk__str_eq(type, PCMK_VALUE_NUMBER, FALSE, pcmk__str_casei)
    THEN pcmk__type.number
    ELSE IF pcmk__str_eq(type, PCMK_VALUE_VERSION, FALSE, pcmk__str_casei)
    THEN pcmk__type.version
    ELSE pcmk__type.unknown

\* type, value1 and value2 are pointers to strings, op is a comparison
pcmk__parse_type(type, op, value1, value2) ==
    IF type = NULL
    THEN IF op \in {pcmk__comparison.lt, pcmk__comparison.lte,
                    pcmk__comparison.gt, pcmk__comparison.gte}
         THEN IF \/ (value1 # NULL) /\ (\E i \in DOMAIN value1[1] :
                                              value1[1][i] = ".")
                 \/ (value2 # NULL) /\ (\E i \in DOMAIN value2[1] :
                                              value2[1][i] = ".")
              THEN pcmk__type.number
              ELSE pcmk__type.integer
         ELSE pcmk__type.string
    ELSE IF pcmk__str_eq(type, PCMK_VALUE_STRING, FALSE, pcmk__str_casei)
    THEN pcmk__type.string
    ELSE IF pcmk__str_eq(type, PCMK_VALUE_INTEGER, FALSE, pcmk__str_casei)
    THEN pcmk__type.integer
    ELSE IF pcmk__str_eq(type, PCMK_VALUE_NUMBER, FALSE, pcmk__str_casei)
    THEN pcmk__type.number
    ELSE IF pcmk__str_eq(type, PCMK_VALUE_VERSION, FALSE, pcmk__str_casei)
    THEN pcmk__type.version
    ELSE pcmk__type.unknown

\* the character code of c
Code(c) ==
    IF isdigit(c) THEN 48 + DigitValue[c]
    ELSE IF \E i \in DOMAIN LowerCase : LowerCase[i] = c
    THEN 96 + (CHOOSE i \in DOMAIN LowerCase : LowerCase[i] = c)
    ELSE IF \E i \in DOMAIN UpperCase : UpperCase[i] = c
    THEN 64 + (CHOOSE i \in DOMAIN UpperCase : UpperCase[i] = c)
    ELSE CASE c = "%" -> 37
           [] c = "-" -> 45
           [] c = "." -> 46
           [] c = "_" -> 95
           [] OTHER -> 63

\* the difference of the first characters that differ when case is
\* ignored, the terminator counting as 0
RECURSIVE strcasecmp(_, _)
strcasecmp(s1, s2) ==
    LET c1 == IF s1 = <<>> THEN 0 ELSE Code(tolower(Head(s1)))
        c2 == IF s2 = <<>> THEN 0 ELSE Code(tolower(Head(s2)))
    IN  IF c1 # c2 THEN c1 - c2
        ELSE IF s1 = <<>> THEN 0
        ELSE strcasecmp(Tail(s1), Tail(s2))

RECURSIVE Pow10(_)
Pow10(n) == IF n = 0 THEN 1 ELSE 10 * Pow10(n - 1)

\* text is a string: an optional sign, then digits with at most one
\* decimal point among them.  The value is num / den.
pcmk__scan_double(text) ==
    LET neg == (text # <<>>) /\ (Head(text) = "-")
        body == IF neg THEN Tail(text) ELSE text
        digits == SelectSeq(body, isdigit)
        points == {i \in DOMAIN body : body[i] = "."}
        fraction == IF points = {} THEN 0
                    ELSE Len(body) - (CHOOSE i \in points : TRUE)
    IN  IF \/ digits = <<>>
           \/ Cardinality(points) > 1
           \/ Len(digits) + Cardinality(points) # Len(body)
        THEN [rc |-> pcmk_rc_bad_input, num |-> 0, den |-> 1]
        ELSE [rc |-> pcmk_rc_ok,
              num |-> IF neg THEN 0 - DecimalValue(digits, 0)
                      ELSE DecimalValue(digits, 0),
              den |-> Pow10(fraction)]

\* the numbers of the dot-separated components of the version string s
RECURSIVE VersionComponents(_)
VersionComponents(s) ==
    LET points == {i \in DOMAIN s : s[i] = "."}
        first == IF points = {} THEN Len(s) + 1
                 ELSE CHOOSE i \in points : \A j \in points : i <= j
        component == SubSeq(s, 1, first - 1)
        value == DecimalValue(SubSeq(component, 1, DigitPrefix(component)),
                              0)
    IN  IF points = {} THEN <<value>>
        ELSE <<value>> \o VersionComponents(SubSeq(s, first + 1, Len(s)))

\* component by component, a missing trailing component counting as 0
RECURSIVE CompareComponents(_, _)
CompareComponents(c1, c2) ==
    IF (c1 = <<>>) /\ (c2 = <<>>) THEN 0
    ELSE LET n1 == IF c1 = <<>> THEN 0 ELSE Head(c1)
             n2 == IF c2 = <<>> THEN 0 ELSE Head(c2)
         IN  IF n1 < n2 THEN -1
             ELSE IF n1 > n2 THEN 1
             ELSE CompareComponents(IF c1 = <<>> THEN c1 ELSE Tail(c1),
                                    IF c2 = <<>> THEN c2 ELSE Tail(c2))

compare_version(version1, version2) ==
    CompareComponents(VersionComponents(version1),
                      VersionComponents(version2))

\* mutant: the type decides before the absent operands do
pcmk__cmp_by_type_type_first(l_val, r_val, type) ==
    IF type = pcmk__type.unknown THEN [cmp |-> 0, calls |-> 1]
    ELSE IF (l_val = NULL) /\ (r_val = NULL) THEN [cmp |-> 0, calls |-> 1]
    ELSE IF r_val = NULL THEN [cmp |-> 1, calls |-> 1]
    ELSE IF l_val = NULL THEN [cmp |-> -1, calls |-> 1]
    ELSE [cmp |-> strcasecmp(l_val[1], r_val[1]), calls |-> 1]

\* mutant: an integer that does not parse counts as the default 0
pcmk__cmp_by_type_no_fallback(l_val, r_val, type) ==
    IF (l_val = NULL) /\ (r_val = NULL) THEN [cmp |-> 0, calls |-> 1]
    ELSE IF r_val = NULL THEN [cmp |-> 1, calls |-> 1]
    ELSE IF l_val = NULL THEN [cmp |-> -1, calls |-> 1]
    ELSE IF type = pcmk__type.integer
    THEN LET l_val_num == pcmk__scan_ll(l_val, 0).result
             r_val_num == pcmk__scan_ll(r_val, 0).result
         IN  [cmp |-> IF l_val_num < r_val_num THEN -1
                      ELSE IF l_val_num > r_val_num THEN 1
                      ELSE 0,
              calls |-> 1]
    ELSE [cmp |-> strcasecmp(l_val[1], r_val[1]), calls |-> 1]

\* l_val and r_val are pointers to strings.  The result is the value
\* returned and the number of calls of the function it took.
RECURSIVE pcmk__cmp_by_type(_, _, _)
pcmk__cmp_by_type(l_val, r_val, type) ==
    IF (l_val # NULL) /\ (r_val # NULL)
    THEN CASE type = pcmk__type.string ->
                  [cmp |-> strcasecmp(l_val[1], r_val[1]), calls |-> 1]
           [] type = pcmk__type.integer ->
                  LET l == pcmk__scan_ll(l_val, 0)
                      r == pcmk__scan_ll(r_val, 0)
                  IN  IF (l.rc = pcmk_rc_ok) /\ (r.rc = pcmk_rc_ok)
                      THEN [cmp |-> IF l.result < r.result THEN -1
                                    ELSE IF l.result > r.result THEN 1
                                    ELSE 0,
                            calls |-> 1]
                      ELSE LET s == pcmk__cmp_by_type(l_val, r_val,
                                                      pcmk__type.string)
                           IN  [cmp |-> s.cmp, calls |-> s.calls + 1]
           [] type = pcmk__type.number ->
                  LET l == pcmk__scan_double(l_val[1])
                      r == pcmk__scan_double(r_val[1])
                  IN  IF (l.rc = pcmk_rc_ok) /\ (r.rc = pcmk_rc_ok)
                      THEN [cmp |-> IF l.num * r.den < r.num * l.den THEN -1
                                    ELSE IF l.num * r.den > r.num * l.den
                                    THEN 1
                                    ELSE 0,
                            calls |-> 1]
                      ELSE LET s == pcmk__cmp_by_type(l_val, r_val,
                                                      pcmk__type.string)
                           IN  [cmp |-> s.cmp, calls |-> s.calls + 1]
           [] type = pcmk__type.version ->
                  [cmp |-> compare_version(l_val[1], r_val[1]), calls |-> 1]
           [] OTHER -> [cmp |-> 0, calls |-> 1]
    ELSE IF (l_val = NULL) /\ (r_val = NULL) THEN [cmp |-> 0, calls |-> 1]
    ELSE IF r_val = NULL THEN [cmp |-> 1, calls |-> 1]
    ELSE [cmp |-> -1, calls |-> 1]

(***************************************************************************)
(* Submatch expansion.  submatches is the sequence of the entries          *)
(* submatches[0], submatches[1], ... as records of rm_so and rm_eo.        *)
(***************************************************************************)
\* mutant: the %N sequences are copied, not expanded
ProcessFrom_keep_unmatched(string, match, submatches, nmatches, acc) ==
    [expanded |-> \E i \in 1..(Len(string) - 1) :
                      (string[i] = "%") /\ isdigit(string[i + 1]),
     expansion |-> IF acc.expansion = NULL THEN NULL ELSE Ptr(string),
     nbytes |-> IF acc.nbytes = NULL THEN NULL
                ELSE Ptr(acc.nbytes[1] + Len(string))]

\* the loop of process_submatches() from src = string on; acc is the value
\* of expanded, the characters written to expansion and *nbytes so far
RECURSIVE ProcessFrom(_, _, _, _, _)
ProcessFrom(string, match, submatches, nmatches, acc) ==
    IF string = <<>> THEN acc
    ELSE IF \/ string[1] # "%"
            \/ Len(string) < 2
            \/ ~isdigit(string[2])
    THEN ProcessFrom(Tail(string), match, submatches, nmatches,
                     [expanded |-> acc.expanded,
                      expansion |-> IF acc.expansion = NULL THEN NULL
                                    ELSE Ptr(Append(acc.expansion[1],
                                                    string[1])),
                      nbytes |-> IF acc.nbytes = NULL THEN NULL
                                 ELSE Ptr(acc.nbytes[1] + 1)])
    ELSE LET submatch == DigitValue[string[2]]
             rest == Tail(Tail(string))
         IN  IF \/ nmatches <= submatch
                \/ submatches[submatch + 1].rm_so < 0
                \/ submatches[submatch + 1].rm_eo
                       <= submatches[submatch + 1].rm_so
             THEN ProcessFrom(rest, match, submatches, nmatches,
                              [expanded |-> TRUE,
                               expansion |-> acc.expansion,
                               nbytes |-> acc.nbytes])
             ELSE LET rm_so == submatches[submatch + 1].rm_so
                      rm_eo == submatches[submatch + 1].rm_eo
                      match_len == rm_eo - rm_so
                  IN  ProcessFrom(rest, match, submatches, nmatches,
                          [expanded |-> TRUE,
                           expansion |->
                               IF acc.expansion = NULL THEN NULL
                               ELSE Ptr(acc.expansion[1]
                                        \o SubSeq(match, rm_so + 1, rm_eo)),
                           nbytes |-> IF acc.nbytes = NULL THEN NULL
                                      ELSE Ptr(acc.nbytes[1] + match_len)])

\* mutant: no byte is counted for the terminator
process_submatches_short(string, match, submatches, nmatches, expansion, nbytes) ==
    ProcessFrom(string, match, submatches, nmatches,
                [expanded |-> FALSE,
                 expansion |-> expansion,
                 nbytes |-> IF nbytes = NULL THEN NULL ELSE Ptr(0)])

\* string and match are strings; expansion is NULL or a pointer to the
\* buffer to fill, nbytes NULL or a pointer to the size to set
process_submatches(string, match, submatches, nmatches, expansion, nbytes) ==
    ProcessFrom(string, match, submatches, nmatches,
                [expanded |-> FALSE,
                 expansion |-> expansion,
                 nbytes |-> IF nbytes = NULL THEN NULL ELSE Ptr(1)])

\* s is a pointer to a string
pcmk__str_empty(s) == (s = NULL) \/ (s[1] = <<>>)

\* the local nbytes of pcmk__replace_submatches() when it returns: 0 as
\* declared, or what the counting pass set
replace_submatches_nbytes(string, match, submatches, nmatches) ==
    IF pcmk__str_empty(string) THEN 0
    ELSE process_submatches(string[1], match, submatches, nmatches,
                            NULL, Ptr(0)).nbytes[1]

\* string is a pointer to a string, match a string; the result is NULL or
\* a pointer to the new string: the bytes the fill pass wrote to the
\* buffer, which calloc() zeroed
pcmk__replace_submatches(string, match, submatches, nmatches) ==
    IF pcmk__str_empty(string) THEN NULL
    ELSE LET counted == process_submatches(string[1], match, submatches,
                                           nmatches, NULL, Ptr(0))
         IN  IF ~counted.expanded THEN NULL
             ELSE process_submatches(string[1], match, submatches,
                                     nmatches, Ptr(<<>>), NULL).expansion

(***************************************************************************)
(* The resource agent metadata cache (controld_metadata.c).  The table is  *)
(* a function from the keys it holds to the records stored under them.  A  *)
(* metadata string is modelled by what parsing it gives: nothing, or the   *)
(* element with its actions (a sequence of name attributes) and its        *)
(* parameters (a sequence of elements with the attributes name, unique     *)
(* and private).  The build is one without versioned attributes.           *)
(***************************************************************************)
ra_supports_reload == "ra_supports_reload"
ra_param_unique == "ra_param_unique"
ra_param_private == "ra_param_private"

NotXml == [valid |-> FALSE, actions |-> <<>>, parameters |-> <<>>]

string2xml(metadata_str) ==
    IF metadata_str.valid THEN Ptr(metadata_str) ELSE NULL

\* the key of the table: it tells the (class, provider, type) apart, and
\* there is none without a class or without a type
crm_generate_ra_key(standard, provider, type) ==
    IF (standard = <<>>) \/ (type = <<>>) THEN NULL
    ELSE Ptr(<<standard, provider, type>>)

\* s is a pointer to a string
crm_is_true(s) ==
    \E t \in {<<"t", "r", "u", "e">>, <<"o", "n">>, <<"y", "e", "s">>,
              <<"y">>, <<"1">>} : pcmk__str_eq(s, t, FALSE, TRUE)

\* the table without its entries
metadata_cache_reset(mdc) == <<>>

\* param_xml is a parameter element with a name
ra_param_from_xml(param_xml) ==
    [rap_name |-> param_xml.name[1],
     rap_flags |-> (IF crm_is_true(param_xml.unique)
                    THEN {ra_param_unique} ELSE {})
                   \cup (IF crm_is_true(param_xml.private)
                         THEN {ra_param_private} ELSE {})]

\* the list the loop over the parameter elements builds by prepending
RECURSIVE BuildParams(_, _)
BuildParams(parameters, ra_params) ==
    IF parameters = <<>> THEN ra_params
    ELSE IF Head(parameters).name = NULL
    THEN BuildParams(Tail(parameters), ra_params)
    ELSE BuildParams(Tail(parameters),
                     <<ra_param_from_xml(Head(parameters))>> \o ra_params)

\* the names pcmk__str_any_of() is given
WellKnownPrivate == {<<"p", "a", "s", "s", "w", "o", "r", "d">>,
                     <<"p", "a", "s", "s", "w", "d">>,
                     <<"u", "s", "e", "r">>}

\* mutant: the well-known names are private whatever the agent declares
MarkPrivate_always(ra_params) ==
    [i \in DOMAIN ra_params |->
        IF ra_params[i].rap_name \in WellKnownPrivate
        THEN [ra_params[i] EXCEPT !.rap_flags = @ \cup {ra_param_private}]
        ELSE ra_params[i]]

\* the parameter list after the backward compatibility rule
MarkPrivate(ra_params) ==
    LET any_private_params ==
            \E i \in DOMAIN ra_params :
                ra_param_private \in ra_params[i].rap_flags
    IN  IF any_private_params THEN ra_params
        ELSE [i \in DOMAIN ra_params |->
                 IF ra_params[i].rap_name \in WellKnownPrivate
                 THEN [ra_params[i] EXCEPT
                          !.rap_flags = @ \cup {ra_param_private}]
                 ELSE ra_params[i]]

\* the record built from the parsed metadata
BuildMetadata(metadata) ==
    [ra_flags |-> IF \E i \in DOMAIN first_named_child(metadata, "actions") :
                         pcmk__str_eq(first_named_child(metadata,
                                                        "actions")[i],
                                      <<"r", "e", "l", "o", "a", "d">>,
                                      FALSE, pcmk__str_casei)
                  THEN {ra_supports_reload} ELSE {},
     ra_params |-> MarkPrivate(BuildParams(first_named_child(metadata,
                                                             "parameters"),
                                           <<>>))]

\* mutant: the entry is dropped before the new record is built
metadata_cache_update_drop_first(mdc, rsc, metadata_str, failing) ==
    IF (mdc = NULL) \/ (rsc = NULL) \/ (metadata_str = NULL)
    THEN [md |-> NULL, mdc |-> IF mdc = NULL THEN NULL ELSE mdc[1]]
    ELSE LET key == <<rsc[1].standard, rsc[1].provider, rsc[1].type>>
             metadata == string2xml(metadata_str[1])
             table == [k \in (DOMAIN mdc[1]) \ {key} |-> mdc[1][k]]
         IN  IF (metadata = NULL) \/ (failing # "none")
             THEN [md |-> NULL, mdc |-> table]
             ELSE [md |-> Ptr(BuildMetadata(metadata[1])),
                   mdc |-> [k \in (DOMAIN table) \cup {key} |->
                               IF k = key THEN BuildMetadata(metadata[1])
                               ELSE table[k]]]

\* mdc is a pointer to the table, rsc a pointer to the agent's standard,
\* provider and type, metadata_str a pointer to the metadata string;
\* failing is the allocation that fails, if any.  The result is the record
\* returned and the table afterwards.
metadata_cache_update(mdc, rsc, metadata_str, failing) ==
    IF (mdc = NULL) \/ (rsc = NULL) \/ (metadata_str = NULL)
    THEN [md |-> NULL, mdc |-> IF mdc = NULL THEN NULL ELSE mdc[1]]
    ELSE LET key == crm_generate_ra_key(rsc[1].standard, rsc[1].provider,
                                        rsc[1].type)
             metadata == string2xml(metadata_str[1])
         IN  IF \/ key = NULL
                \/ metadata = NULL
                \/ failing = "md"
                \/ /\ failing = "param"
                   /\ \E i \in DOMAIN metadata[1].parameters :
                          metadata[1].parameters[i].name # NULL
             THEN [md |-> NULL, mdc |-> mdc[1]]
             ELSE LET md == BuildMetadata(metadata[1])
                  IN  [md |-> Ptr(md),
                       mdc |-> [k \in (DOMAIN mdc[1]) \cup {key[1]} |->
                                   IF k = key[1] THEN md ELSE mdc[1][k]]]

\* the record found, or NULL
metadata_cache_get(mdc, rsc) ==
    IF (mdc = NULL) \/ (rsc = NULL) THEN NULL
    ELSE LET key == crm_generate_ra_key(rsc[1].standard, rsc[1].provider,
                                        rsc[1].type)
         IN  IF (key # NULL) /\ (key[1] \in DOMAIN mdc[1])
             THEN Ptr(mdc[1][key[1]])
             ELSE NULL

(***************************************************************************)
(* Inputs.                                                                 *)
(***************************************************************************)
\* the instant days whole days and h:m:s after the epoch
Instant(days, h, m, s) == (days * SecondsPerDay) + (h * 3600) + (m * 60) + s

May31_2024 == Instant(151, 23, 59, 59)
June15_2024 == Instant(166, 7, 7, 7)
Sept1_2024 == Instant(244, 0, 0, 0)
Dec30_2024 == Instant(364, 12, 30, 0)
May31_2025 == Instant(516, 23, 59, 59)
June15_2025 == Instant(531, 7, 7, 7)
Sept1_2025 == Instant(609, 0, 0, 0)

CalendarSamples == {May31_2024, June15_2024, Sept1_2024, Dec30_2024,
                    May31_2025, June15_2025, Sept1_2025}

Times == 0..MaxTime

\* the now of a range operation, of a date specification, the start of a
\* duration
RangeNows == {NULL} \cup {Ptr(t) : t \in Times}
CalendarNows == {NULL} \cup {Ptr(t) : t \in CalendarSamples \cup {0}}

\* no hint wanted, a hint not set yet, or a hint already set
Hints == {NULL, Ptr(UndefinedTime)} \cup {Ptr(t) : t \in 0..(MaxTime + 1)}

DateAttrs == {NULL, Ptr(NotADate)} \cup {Ptr(DateString(t)) : t \in Times}

RangeStrings == {<<"6", "-", "8">>, <<"8", "-", "6">>, <<"6", "-">>,
                 <<"-", "8">>, <<"2", "0", "2", "4">>, <<"6", "x">>}

\* the range strings of date specifications with several fields
FewRangeStrings == {<<"6", "-", "8">>, <<"8", "-", "6">>, <<"6", "x">>}

AttrSet(names) == {names[i] : i \in DOMAIN names}

\* the elements with at most k of the attributes names set, to values
ElementsWith(names, values, k) ==
    UNION { { [a \in AttrSet(names) |-> IF a \in S THEN Ptr(f[a]) ELSE NULL]
              : f \in [S -> values] }
            : S \in {T \in SUBSET AttrSet(names) : Cardinality(T) <= k} }

DateSpecs == ElementsWith(RangeAttrs, RangeStrings, 1)
                 \cup ElementsWith(RangeAttrs, FewRangeStrings, MaxFields)

DigitChar(n) == CHOOSE c \in DOMAIN DigitValue : DigitValue[c] = n

AmountStrings == {<<DigitChar(n)>> : n \in 0..MaxAmount} \cup {<<"x">>}

Durations == ElementsWith(TimeComponents, AmountStrings, 2)

\* durations that move the end by seconds
ShortDurations == ElementsWith(<<"seconds">>, AmountStrings, 1)

NoDuration == [a \in AttrSet(TimeComponents) |-> NULL]

InRangeExpressions ==
    [operation : {Ptr(PCMK_VALUE_IN_RANGE)},
     start : DateAttrs, end : DateAttrs,
     duration : {NULL} \cup {Ptr(d @@ NoDuration) : d \in ShortDurations},
     date_spec : {NULL}]

BoundExpressions ==
    [operation : {Ptr(PCMK_VALUE_GT), Ptr(PCMK_VALUE_LT)},
     start : DateAttrs, end : DateAttrs,
     duration : {NULL}, date_spec : {NULL}]

\* no operation, operations in other case, an operation that is none
OtherOperations ==
    [operation : {NULL, Ptr(<<"I", "n", "_", "R", "a", "n", "g", "e">>),
                  Ptr(<<"G", "T">>), Ptr(<<"L", "t">>), Ptr(<<"e", "q">>)},
     start : {NULL, Ptr(DateString(1))}, end : {NULL, Ptr(DateString(2))},
     duration : {NULL}, date_spec : {NULL}]

DateSpecExpressions ==
    [operation : {Ptr(PCMK_VALUE_DATE_SPEC),
                  Ptr(<<"D", "A", "T", "E", "_", "S", "P", "E", "C">>)},
     start : {NULL}, end : {NULL}, duration : {NULL},
     date_spec : {NULL}
                 \cup {Ptr(d) : d \in ElementsWith(RangeAttrs, RangeStrings,
                                                   1)}]

\* the arguments date_expression and now of an evaluation
ExpressionCalls ==
    ({NULL} \X (RangeNows \cup CalendarNows))
    \cup ({Ptr(x) : x \in InRangeExpressions \cup BoundExpressions
                          \cup OtherOperations} \X RangeNows)
    \cup ({Ptr(x) : x \in DateSpecExpressions} \X CalendarNows)

DateSpecArgs == {NULL} \cup {Ptr(d) : d \in DateSpecs}

DurationArgs == {NULL} \cup {Ptr(d) : d \in Durations}

\* no slot, an empty slot, or a slot that already holds an instant
EndArgs == {NULL, Ptr(NULL), Ptr(Ptr(0))}

\* the strings of at most n characters out of chars
Strings(chars, n) == UNION {[1..k -> chars] : k \in 0..n}

LeftOperands ==
    {NULL} \cup {Ptr(str) : str \in Strings({"1", "0", "9", ".", "-", "a",
                                              "A"}, MaxOperand)}

RightOperands == {NULL, Ptr(<<>>), Ptr(<<"9">>), Ptr(<<"1", "0">>),
                  Ptr(<<"a">>), Ptr(<<"1", ".", "5">>), Ptr(<<"-", "1">>),
                  Ptr(<<"1", "a">>)}

Types == {pcmk__type.unknown, pcmk__type.string, pcmk__type.integer,
          pcmk__type.number, pcmk__type.version}

Comparisons == {pcmk__comparison.unknown, pcmk__comparison.defined,
                pcmk__comparison.undefined, pcmk__comparison.eq,
                pcmk__comparison.ne, pcmk__comparison.lt,
                pcmk__comparison.lte, pcmk__comparison.gt,
                pcmk__comparison.gte}

TypeTokens == {NULL, Ptr(<<>>), Ptr(PCMK_VALUE_STRING),
               Ptr(PCMK_VALUE_INTEGER), Ptr(PCMK_VALUE_NUMBER),
               Ptr(PCMK_VALUE_VERSION),
               Ptr(<<"I", "n", "t", "e", "g", "e", "r">>),
               Ptr(<<"V", "E", "R", "S", "I", "O", "N">>),
               Ptr(<<"i", "n", "t">>),
               Ptr(<<"n", "u", "m", "b", "e", "r", "s">>)}

ValueArgs == {NULL, Ptr(<<"1">>), Ptr(<<"1", ".", "5">>), Ptr(<<"a">>)}

ComparisonTokens == {NULL, Ptr(<<>>), Ptr(PCMK_VALUE_DEFINED),
                     Ptr(PCMK_VALUE_NOT_DEFINED), Ptr(PCMK_VALUE_EQ),
                     Ptr(PCMK_VALUE_NE), Ptr(PCMK_VALUE_LT),
                     Ptr(PCMK_VALUE_LTE), Ptr(PCMK_VALUE_GT),
                     Ptr(PCMK_VALUE_GTE), Ptr(<<"G", "T">>),
                     Ptr(<<"L", "t", "e">>),
                     Ptr(<<"N", "o", "t", "_", "D", "e", "f", "i", "n", "e",
                           "d">>),
                     Ptr(<<"g">>), Ptr(<<"g", "t", "x">>),
                     Ptr(<<"e", "q", "u", "a", "l", "s">>)}

Templates ==
    {NULL} \cup {Ptr(str) : str \in Strings({"%", "0", "1", "2", "a"},
                                            MaxTemplate)}

Matches == {<<"a", "b">>, <<"%", "1">>}

\* up to two groups, each no match, an empty match or a match within a
\* string of two characters
Submatches ==
    UNION {[1..k -> {[rm_so |-> -1, rm_eo |-> -1],
                     [rm_so |-> 0, rm_eo |-> 0],
                     [rm_so |-> 0, rm_eo |-> 2],
                     [rm_so |-> 1, rm_eo |-> 2]}] : k \in 0..2}

\* the arguments string, match and submatches of an expansion, among them
\* "backup-%1" for the match "db-prod"
SubmatchCalls ==
    (Templates \X Matches \X Submatches)
    \cup {<<Ptr(<<"b", "a", "c", "k", "u", "p", "-", "%", "1">>),
            <<"d", "b", "-", "p", "r", "o", "d">>,
            <<[rm_so |-> 0, rm_eo |-> 7], [rm_so |-> 3, rm_eo |-> 7]>> >>}

ParamElements ==
    {[name |-> Ptr(<<"p", "a", "s", "s", "w", "o", "r", "d">>),
      unique |-> NULL, private |-> NULL],
     [name |-> Ptr(<<"p", "a", "s", "s", "w", "d">>),
      unique |-> Ptr(<<"1">>), private |-> NULL],
     [name |-> Ptr(<<"u", "s", "e", "r">>), unique |-> NULL,
      private |-> Ptr(<<"f", "a", "l", "s", "e">>)],
     [name |-> Ptr(<<"i", "p">>), unique |-> NULL, private |-> Ptr(<<"1">>)],
     [name |-> Ptr(<<"i", "p">>), unique |-> NULL, private |-> NULL],
     [name |-> NULL, unique |-> NULL,
      private |-> Ptr(<<"t", "r", "u", "e">>)]}

\* the sequences of at most n different elements of S
Arrangements(S, n) ==
    {q \in UNION {[1..k -> S] : k \in 0..n} :
        \A i, j \in DOMAIN q : (i # j) => (q[i] # q[j])}

\* metadata of an agent with parameters and without actions
ParameterMetadata ==
    {[valid |-> TRUE, actions |-> <<>>, parameters |-> q] :
        q \in Arrangements(ParamElements, MaxParams)}

\* metadata that is not XML, and metadata of an agent that can reload
OtherMetadata ==
    {NotXml,
     [valid |-> TRUE,
      actions |-> <<Ptr(<<"s", "t", "a", "r", "t">>),
                    Ptr(<<"R", "e", "l", "o", "a", "d">>)>>,
      parameters |-> <<[name |-> Ptr(<<"p", "a", "s", "s", "w", "o", "r",
                                       "d">>),
                        unique |-> NULL, private |-> NULL]>>]}

Heartbeat == [standard |-> <<"o", "c", "f">>,
              provider |-> <<"h", "e", "a", "r", "t", "b", "e", "a", "t">>,
              type |-> <<"I", "P", "a", "d", "d", "r">>]

Pacemaker == [standard |-> <<"o", "c", "f">>,
              provider |-> <<"p", "a", "c", "e", "m", "a", "k", "e", "r">>,
              type |-> <<"I", "P", "a", "d", "d", "r">>]

\* an agent without a type
NoType == [standard |-> <<"o", "c", "f">>, provider |-> <<>>, type |-> <<>>]

\* the arguments rsc and metadata_str of an update and the allocation
\* that fails in it: none, the one of the record, or one of a parameter
UpdateCalls ==
    ({Ptr(Heartbeat)} \X {Ptr(m) : m \in ParameterMetadata}
                      \X {"none", "param"})
    \cup ({Ptr(Pacemaker)} \X {Ptr(m) : m \in OtherMetadata}
                            \X {"none", "md", "param"})
    \cup ({NULL, Ptr(NoType)} \X {Ptr(m) : m \in OtherMetadata} \X {"none"})
    \cup ({Ptr(Heartbeat)} \X {NULL} \X {"none"})

RscArgs == {NULL, Ptr(Heartbeat), Ptr(Pacemaker), Ptr(NoType)}

(***************************************************************************)
(* The state: the entry point called last, its arguments and what it gave. *)
(* next_change is threaded from one evaluation to the next; hint_in is its *)
(* value when the last evaluation started, and end_in is the slot          *)
(* pcmk__unpack_duration() was given.  args and result are the arguments   *)
(* and the return value of the other entry points.  mdc is the metadata    *)
(* cache, and latest records, for each (class, provider, type), what the   *)
(* last update that succeeded since the last reset returned.  nbytes is   *)
(* the local of that name in pcmk__replace_submatches(), the size of the   *)
(* buffer it allocates.                                                     *)
(***************************************************************************)
VARIABLES pc, fn, date_expression, date_spec, duration, start, end, end_in,
          now, next_change, hint_in, rc, args, result, mdc, latest, nbytes

vars == <<pc, fn, date_expression, date_spec, duration, start, end, end_in,
          now, next_change, hint_in, rc, args, result, mdc, latest,
          nbytes>>

NoCall ==
    /\ fn = "none"
    /\ date_expression = NULL
    /\ date_spec = NULL
    /\ duration = NULL
    /\ start = NULL
    /\ end = NULL
    /\ end_in = NULL
    /\ now = NULL
    /\ hint_in = NULL
    /\ rc = "none"
    /\ args = NULL
    /\ result = NULL
    /\ nbytes = 0

\* metadata_cache_new()
EmptyCache ==
    /\ mdc = <<>>
    /\ latest = <<>>

Init ==
    /\ pc = "idle"
    /\ next_change \in Hints
    /\ NoCall
    /\ EmptyCache

InitEntryPoints ==
    /\ pc = "idle"
    /\ next_change = NULL
    /\ NoCall
    /\ EmptyCache

EvaluateDateExpression ==
    /\ pc = "idle"
    /\ \E call \in ExpressionCalls :
           LET r == pcmk__evaluate_date_expression(call[1], call[2],
                                                   next_change)
           IN  /\ date_expression' = call[1]
               /\ now' = call[2]
               /\ hint_in' = next_change
               /\ next_change' = r.next_change
               /\ rc' = r.rc
    /\ pc' = "done"
    /\ fn' = "pcmk__evaluate_date_expression"
    /\ UNCHANGED <<date_spec, duration, start, end, end_in, args, result,
                   mdc, latest, nbytes>>

EvaluateDateSpec ==
    /\ pc = "idle"
    /\ \E xml \in DateSpecArgs, t \in CalendarNows :
           /\ date_spec' = xml
           /\ now' = t
           /\ rc' = pcmk__evaluate_date_spec(xml, t)
    /\ pc' = "done"
    /\ fn' = "pcmk__evaluate_date_spec"
    /\ UNCHANGED <<date_expression, duration, start, end, end_in,
                   next_change, hint_in, args, result, mdc, latest,
                   nbytes>>

UnpackDuration ==
    /\ pc = "idle"
    /\ \E xml \in DurationArgs, s \in CalendarNows, e \in EndArgs :
           LET r == pcmk__unpack_duration(xml, s, e)
           IN  /\ duration' = xml
               /\ start' = s
               /\ end_in' = e
               /\ end' = r.end
               /\ rc' = r.rc
    /\ pc' = "done"
    /\ fn' = "pcmk__unpack_duration"
    /\ UNCHANGED <<date_expression, date_spec, now, next_change, hint_in,
                   args, result, mdc, latest, nbytes>>

\* the caller takes the result; the hint stays for the next evaluation
Return ==
    /\ pc = "done"
    /\ pc' = "idle"
    /\ fn' = "none"
    /\ date_expression' = NULL
    /\ date_spec' = NULL
    /\ duration' = NULL
    /\ start' = NULL
    /\ end' = NULL
    /\ end_in' = NULL
    /\ now' = NULL
    /\ hint_in' = NULL
    /\ rc' = "none"
    /\ args' = NULL
    /\ result' = NULL
    /\ nbytes' = 0
    /\ UNCHANGED <<next_change, mdc, latest>>

\* the variables of the date entry points
dateVars == <<date_expression, date_spec, duration, start, end, end_in, now,
              next_change, hint_in, rc>>

CmpByType ==
    /\ pc = "idle"
    /\ \E l_val \in LeftOperands, r_val \in RightOperands, type \in Types :
           /\ args' = [l_val |-> l_val, r_val |-> r_val, type |-> type]
           /\ result' = pcmk__cmp_by_type(l_val, r_val, type)
    /\ pc' = "done"
    /\ fn' = "pcmk__cmp_by_type"
    /\ UNCHANGED <<dateVars, mdc, latest, nbytes>>

ParseType ==
    /\ pc = "idle"
    /\ \E type \in TypeTokens, op \in Comparisons,
          value1 \in ValueArgs, value2 \in ValueArgs :
           /\ args' = [type |-> type, op |-> op, value1 |-> value1,
                       value2 |-> value2]
           /\ result' = pcmk__parse_type(type, op, value1, value2)
    /\ pc' = "done"
    /\ fn' = "pcmk__parse_type"
    /\ UNCHANGED <<dateVars, mdc, latest, nbytes>>

ParseComparison ==
    /\ pc = "idle"
    /\ \E op \in ComparisonTokens :
           /\ args' = [op |-> op]
           /\ result' = pcmk__parse_comparison(op)
    /\ pc' = "done"
    /\ fn' = "pcmk__parse_comparison"
    /\ UNCHANGED <<dateVars, mdc, latest, nbytes>>

ReplaceSubmatches ==
    /\ pc = "idle"
    /\ \E call \in SubmatchCalls :
           /\ args' = [string |-> call[1], match |-> call[2],
                       submatches |-> call[3], nmatches |-> Len(call[3])]
           /\ result' = pcmk__replace_submatches(call[1], call[2], call[3],
                                                 Len(call[3]))
           /\ nbytes' = replace_submatches_nbytes(call[1], call[2], call[3],
                                                  Len(call[3]))
    /\ pc' = "done"
    /\ fn' = "pcmk__replace_submatches"
    /\ UNCHANGED <<dateVars, mdc, latest>>

\* the key the claims about the cache go by
RscKey(rsc) == <<rsc.standard, rsc.provider, rsc.type>>

\* the caller passes the cache, or no cache at all
MetadataCacheUpdate ==
    /\ pc = "idle"
    /\ \E call \in UpdateCalls, table \in {NULL, Ptr(mdc)} :
           LET r == metadata_cache_update(table, call[1], call[2], call[3])
           IN  /\ args' = [mdc |-> table, rsc |-> call[1],
                           metadata_str |-> call[2], failing |-> call[3]]
               /\ result' = r.md
               /\ mdc' = IF table = NULL THEN mdc ELSE r.mdc
               /\ latest' = IF (table = NULL) \/ (r.md = NULL) THEN latest
                            ELSE [k \in (DOMAIN latest)
                                        \cup {RscKey(call[1][1])} |->
                                     IF k = RscKey(call[1][1]) THEN r.md[1]
                                     ELSE latest[k]]
    /\ pc' = "done"
    /\ fn' = "metadata_cache_update"
    /\ UNCHANGED <<dateVars, nbytes>>

MetadataCacheGet ==
    /\ pc = "idle"
    /\ \E rsc \in RscArgs, table \in {NULL, Ptr(mdc)} :
           /\ args' = [mdc |-> table, rsc |-> rsc]
           /\ result' = metadata_cache_get(table, rsc)
    /\ pc' = "done"
    /\ fn' = "metadata_cache_get"
    /\ UNCHANGED <<dateVars, mdc, latest, nbytes>>

MetadataCacheReset ==
    /\ pc = "idle"
    /\ \E table \in {NULL, Ptr(mdc)} :
           /\ args' = [mdc |-> table]
           /\ mdc' = IF table = NULL THEN mdc
                     ELSE metadata_cache_reset(table[1])
           /\ latest' = IF table = NULL THEN latest ELSE <<>>
    /\ result' = NULL
    /\ pc' = "done"
    /\ fn' = "metadata_cache_reset"
    /\ UNCHANGED <<dateVars, nbytes>>

NextExpression == EvaluateDateExpression \/ Return

Next == EvaluateDateExpression \/ EvaluateDateSpec \/ UnpackDuration
        \/ Return

\* evaluations of date expressions that thread one hint
Spec == Init /\ [][NextExpression]_vars

\* calls of the three entry points, without a hint
SpecEntryPoints == InitEntryPoints /\ [][Next]_vars

\* comparisons of values and parsing of their operators and types
SpecCompare ==
    InitEntryPoints
    /\ [][CmpByType \/ ParseType \/ ParseComparison \/ Return]_vars

\* expansions of submatches
SpecSubmatches == InitEntryPoints /\ [][ReplaceSubmatches \/ Return]_vars

\* one metadata cache and its callers
SpecMetadata ==
    InitEntryPoints
    /\ [][MetadataCacheUpdate \/ MetadataCacheGet \/ MetadataCacheReset
           \/ Return]_vars

(***************************************************************************)
(* Properties.                                                             *)
(***************************************************************************)
Done(f) == (pc = "done") /\ (fn = f)

\* a date expression was evaluated with both required arguments present
Evaluated ==
    /\ Done("pcmk__evaluate_date_expression")
    /\ date_expression # NULL
    /\ now # NULL

OperationIn(tokens) ==
    \E tok \in tokens : date_expression[1].operation = Ptr(tok)

IsGt == OperationIn({PCMK_VALUE_GT, <<"G", "T">>})
IsLt == OperationIn({PCMK_VALUE_LT, <<"L", "t">>})
IsInRange ==
    \/ date_expression[1].operation = NULL
    \/ OperationIn({PCMK_VALUE_IN_RANGE,
                    <<"I", "n", "_", "R", "a", "n", "g", "e">>})

\* the attribute holds a date/time
Resolves(attr) == (attr # NULL) /\ attr[1].valid

StartAttr == date_expression[1].start
EndAttr == date_expression[1].end

\* what a hint h is after the candidate instant c was merged into it
Merged(h, c) ==
    IF h = NULL THEN NULL
    ELSE IF (h[1] = UndefinedTime) \/ (c < h[1]) THEN Ptr(c)
    ELSE h

Unset == Ptr(UndefinedTime)

\* C1: a gt expression with a valid start S gives before_range at now = S
\* and merges S + 1 second into next_change; at now = S + 1 second or any
\* later instant it gives within_range.
C1_GtStrictlyAfterStart ==
    (Evaluated /\ IsGt /\ Resolves(StartAttr)) =>
        LET S == StartAttr[1].t
        IN  /\ (now[1] = S) =>
                  /\ rc = pcmk_rc_before_range
                  /\ next_change = Merged(hint_in, S + 1)
            /\ (now[1] >= S + 1) => (rc = pcmk_rc_within_range)

C1_Witness ==
    /\ Evaluated /\ IsGt /\ Resolves(StartAttr)
    /\ now[1] = StartAttr[1].t
    /\ hint_in = Unset
    /\ next_change = Ptr(StartAttr[1].t + 1)
    /\ rc = pcmk_rc_before_range

\* in_range with start set and neither end nor duration
OnlyStart ==
    /\ Evaluated /\ IsInRange /\ Resolves(StartAttr)
    /\ EndAttr = NULL
    /\ date_expression[1].duration = NULL

\* the verdict of the gt expression with the same start at the same now
GtVerdict ==
    pcmk__evaluate_date_expression(
        Ptr([date_expression[1] EXCEPT !.operation = Ptr(PCMK_VALUE_GT)]),
        now, hint_in).rc

\* C2 as stated: an in_range expression with only start = S gives, at every
\* now, the verdict of the gt expression with start = S, and never
\* after_range.
C2_SameAsGtEverywhere ==
    OnlyStart => ((rc = GtVerdict) /\ (rc # pcmk_rc_after_range))

\* C2 amended: an in_range expression with only start = S gives the verdict
\* of the gt expression with start = S at every now other than S; at
\* now = S it gives within_range where gt gives before_range; it never
\* gives after_range.
C2_SameAsGtExceptAtStart ==
    OnlyStart =>
        /\ (now[1] # StartAttr[1].t) => (rc = GtVerdict)
        /\ (now[1] = StartAttr[1].t) =>
              /\ rc = pcmk_rc_within_range
              /\ GtVerdict = pcmk_rc_before_range
        /\ rc # pcmk_rc_after_range

C2_Witness ==
    /\ OnlyStart
    /\ now[1] = StartAttr[1].t
    /\ rc = pcmk_rc_within_range

\* the end of an in_range expression: the end attribute, else the start
\* plus the duration child
EndResolves ==
    \/ Resolves(EndAttr)
    \/ Resolves(StartAttr) /\ (date_expression[1].duration # NULL)

EndInstant ==
    IF Resolves(EndAttr) THEN EndAttr[1].t
    ELSE pcmk__unpack_duration(date_expression[1].duration,
                               Ptr(StartAttr[1].t), Ptr(NULL)).end[1]

\* C3: for in_range, when neither the start nor the end attribute gives an
\* instant the verdict is undetermined; otherwise now < start gives
\* before_range with candidate start, else now > end gives after_range with
\* no candidate, else the verdict is within_range with candidate
\* end + 1 second when there is an end.
C3_InRangeVerdict ==
    (Evaluated /\ IsInRange) =>
        IF ~Resolves(StartAttr) /\ ~Resolves(EndAttr)
        THEN (rc = pcmk_rc_undetermined) /\ (next_change = hint_in)
        ELSE IF Resolves(StartAttr) /\ (now[1] < StartAttr[1].t)
        THEN /\ rc = pcmk_rc_before_range
             /\ next_change = Merged(hint_in, StartAttr[1].t)
        ELSE IF EndResolves /\ (now[1] > EndInstant)
        THEN (rc = pcmk_rc_after_range) /\ (next_change = hint_in)
        ELSE /\ rc = pcmk_rc_within_range
             /\ next_change = IF EndResolves
                              THEN Merged(hint_in, EndInstant + 1)
                              ELSE hint_in

C3_Witness ==
    /\ Evaluated /\ IsInRange
    /\ ~Resolves(EndAttr) /\ EndResolves
    /\ EndInstant > StartAttr[1].t
    /\ rc = pcmk_rc_within_range
    /\ hint_in = Unset
    /\ next_change = Ptr(EndInstant + 1)

\* C4: for lt, an absent or invalid end gives undetermined; otherwise
\* now < end gives within_range with candidate end, and now >= end gives
\* after_range with no candidate.
C4_LtVerdict ==
    (Evaluated /\ IsLt) =>
        IF ~Resolves(EndAttr)
        THEN (rc = pcmk_rc_undetermined) /\ (next_change = hint_in)
        ELSE IF now[1] < EndAttr[1].t
        THEN /\ rc = pcmk_rc_within_range
             /\ next_change = Merged(hint_in, EndAttr[1].t)
        ELSE (rc = pcmk_rc_after_range) /\ (next_change = hint_in)

C4_Witness ==
    /\ Evaluated /\ IsLt /\ Resolves(EndAttr)
    /\ now[1] = EndAttr[1].t - 1
    /\ hint_in = Unset
    /\ next_change = Ptr(EndAttr[1].t)
    /\ rc = pcmk_rc_within_range

\* C5: no step raises the hint: next_change stays as it is or becomes a
\* strictly earlier instant, a hint that is not set yet counting as later
\* than every instant.
C5_HintNeverRaised ==
    [][\/ next_change' = next_change
       \/ /\ next_change # NULL
          /\ next_change' # NULL
          /\ next_change'[1] # UndefinedTime
          /\ \/ next_change[1] = UndefinedTime
             \/ next_change'[1] < next_change[1]]_vars

C5_Witness ==
    /\ Evaluated
    /\ hint_in # NULL
    /\ hint_in[1] # UndefinedTime
    /\ next_change[1] < hint_in[1]

\* the verdict of the evaluated expression at instant t
VerdictAt(t) ==
    pcmk__evaluate_date_expression(date_expression, Ptr(t), Unset).rc

\* C6: the candidate C an in_range, gt or lt evaluation at now puts into a
\* hint that was not set is the earliest instant at which the verdict
\* flips: C is after now, the verdict at every t with now <= t < C is the
\* verdict at now, and the verdict at C differs.
C6_CandidateIsFirstFlip ==
    (/\ Evaluated
     /\ IsInRange \/ IsGt \/ IsLt
     /\ hint_in = Unset
     /\ next_change # Unset) =>
        LET C == next_change[1]
        IN  /\ now[1] < C
            /\ \A t \in now[1]..(C - 1) : VerdictAt(t) = rc
            /\ VerdictAt(C) # rc

C6_Witness ==
    /\ Evaluated /\ IsLt
    /\ hint_in = Unset
    /\ next_change # Unset
    /\ next_change[1] >= now[1] + 2
    /\ rc = pcmk_rc_within_range

\* a date specification was evaluated with both arguments present
SpecEvaluated ==
    /\ Done("pcmk__evaluate_date_spec")
    /\ date_spec # NULL
    /\ now # NULL

\* the order in which the fields are to be checked
FieldOrder == <<"years", "months", "monthdays", "hours", "minutes",
                "seconds", "yeardays", "weekyears", "weeks", "weekdays",
                "moon">>

\* the component of instant t that the field is about
Component(field, t) ==
    CASE field = "years" -> crm_time_get_gregorian(t)[1]
      [] field = "months" -> crm_time_get_gregorian(t)[2]
      [] field = "monthdays" -> crm_time_get_gregorian(t)[3]
      [] field = "hours" -> crm_time_get_timeofday(t)[1]
      [] field = "minutes" -> crm_time_get_timeofday(t)[2]
      [] field = "seconds" -> crm_time_get_timeofday(t)[3]
      [] field = "yeardays" -> crm_time_get_ordinal(t)[2]
      [] field = "weekyears" -> crm_time_get_isoweek(t)[1]
      [] field = "weeks" -> crm_time_get_isoweek(t)[2]
      [] field = "weekdays" -> crm_time_get_isoweek(t)[3]
      [] field = "moon" -> phase_of_the_moon(t)

\* the field is set and its string is a range
Parseable(spec, field) ==
    /\ spec[field] # NULL
    /\ pcmk__parse_ll_range(spec[field][1]).rc = pcmk_rc_ok

\* before_range or after_range when the component lies outside the range
\* (low, high) of the field, "pass" otherwise
RangeVerdict(spec, field, t) ==
    LET r == pcmk__parse_ll_range(spec[field][1])
        v == Component(field, t)
    IN  IF (r.low # PCMK__PARSE_INT_DEFAULT) /\ (v < r.low)
        THEN pcmk_rc_before_range
        ELSE IF (r.high # PCMK__PARSE_INT_DEFAULT) /\ (v > r.high)
        THEN pcmk_rc_after_range
        ELSE "pass"

Violated(spec, field, t) ==
    Parseable(spec, field) /\ (RangeVerdict(spec, field, t) # "pass")

\* C7: the result is the verdict of the first field, in the fixed order,
\* that is set, parseable and violated; a field that cannot be parsed does
\* not stop the check of later fields; with no such field the result is ok.
C7_FirstViolatedFieldInOrder ==
    SpecEvaluated =>
        LET spec == date_spec[1]
            bad == {i \in DOMAIN FieldOrder :
                      Violated(spec, FieldOrder[i], now[1])}
        IN  IF bad = {} THEN rc = pcmk_rc_ok
            ELSE LET first == CHOOSE i \in bad : \A j \in bad : i <= j
                 IN  rc = RangeVerdict(spec, FieldOrder[first], now[1])

\* an unparseable months range and a violated hours range
C7_Witness ==
    /\ SpecEvaluated
    /\ date_spec[1]["months"] = Ptr(<<"6", "x">>)
    /\ date_spec[1]["hours"] = Ptr(<<"6", "-", "8">>)
    /\ now[1] = May31_2024
    /\ rc = pcmk_rc_after_range

\* the fields of the evaluated date specification that are set
FieldsSet == {f \in AttrSet(FieldOrder) : date_spec[1][f] # NULL}

OnlyMonths6To8 ==
    /\ SpecEvaluated
    /\ FieldsSet = {"months"}
    /\ date_spec[1]["months"] = Ptr(<<"6", "-", "8">>)

\* C8: with one parseable field (low, high), the result is before_range
\* when low is given and the component is below it, after_range when high
\* is given and the component is above it, and ok otherwise; months "6-8"
\* gives ok in June, before_range in May and after_range in September of
\* either year.
C8_RangeCheck ==
    /\ \A f \in AttrSet(FieldOrder) :
           (SpecEvaluated /\ (FieldsSet = {f}) /\ Parseable(date_spec[1], f))
           => LET v == RangeVerdict(date_spec[1], f, now[1])
              IN  rc = IF v = "pass" THEN pcmk_rc_ok ELSE v
    /\ (OnlyMonths6To8 /\ now[1] \in {June15_2024, June15_2025})
           => (rc = pcmk_rc_ok)
    /\ (OnlyMonths6To8 /\ now[1] \in {May31_2024, May31_2025})
           => (rc = pcmk_rc_before_range)
    /\ (OnlyMonths6To8 /\ now[1] \in {Sept1_2024, Sept1_2025})
           => (rc = pcmk_rc_after_range)

C8_Witness ==
    /\ OnlyMonths6To8
    /\ now[1] = Sept1_2025
    /\ rc = pcmk_rc_after_range

\* the string is "N-M" with N > M
Inverted(str) ==
    \E k \in 2..(Len(str) - 1) :
        /\ str[k] = "-"
        /\ DigitPrefix(SubSeq(str, 1, k - 1)) = k - 1
        /\ DigitPrefix(SubSeq(str, k + 1, Len(str))) = Len(str) - k
        /\ DecimalValue(SubSeq(str, 1, k - 1), 0)
               > DecimalValue(SubSeq(str, k + 1, Len(str)), 0)

\* C9: a field whose range has low > high counts as not set: the result is
\* the result for the date specification without that field, so ok when it
\* is the only field.
C9_InvertedRangeIgnored ==
    SpecEvaluated =>
        \A f \in FieldsSet :
            Inverted(date_spec[1][f][1]) =>
                /\ rc = pcmk__evaluate_date_spec(
                            Ptr([date_spec[1] EXCEPT ![f] = NULL]), now)
                /\ (FieldsSet = {f}) => (rc = pcmk_rc_ok)

\* hours "8-6" at an instant whose hour is 7
C9_Witness ==
    /\ SpecEvaluated
    /\ FieldsSet = {"hours"}
    /\ date_spec[1]["hours"] = Ptr(<<"8", "-", "6">>)
    /\ now[1] = June15_2024
    /\ rc = pcmk_rc_ok

Verdicts == {pcmk_rc_ok, pcmk_rc_within_range, pcmk_rc_before_range,
             pcmk_rc_after_range, pcmk_rc_undetermined}

\* C10: pcmk__evaluate_date_expression gives EINVAL exactly when the
\* expression or now is NULL, and then no verdict; pcmk__evaluate_date_spec
\* and pcmk__unpack_duration give EINVAL when a required argument is NULL.
C10_InvalidArgument ==
    /\ Done("pcmk__evaluate_date_expression") =>
           /\ (rc = EINVAL) <=> ((date_expression = NULL) \/ (now = NULL))
           /\ (rc \in Verdicts) <=> ((date_expression # NULL) /\ (now # NULL))
    /\ (Done("pcmk__evaluate_date_spec")
        /\ ((date_spec = NULL) \/ (now = NULL))) => (rc = EINVAL)
    /\ (Done("pcmk__unpack_duration")
        /\ ((duration = NULL) \/ (start = NULL) \/ (end_in = NULL)))
           => (rc = EINVAL)

C10_Witness ==
    /\ Done("pcmk__evaluate_date_expression")
    /\ date_expression # NULL
    /\ now = NULL
    /\ rc = EINVAL

(***************************************************************************)
(* Comparisons.                                                            *)
(***************************************************************************)
Compared == Done("pcmk__cmp_by_type")

\* C11: whatever the type, two absent operands compare equal, a present
\* left operand is greater than an absent right one, and an absent left
\* operand is less than a present right one.
C11_AbsentOperands ==
    Compared =>
        /\ (args.l_val = NULL) /\ (args.r_val = NULL) => result.cmp = 0
        /\ (args.l_val # NULL) /\ (args.r_val = NULL) => result.cmp = 1
        /\ (args.l_val = NULL) /\ (args.r_val # NULL) => result.cmp = -1

C11_Witness ==
    /\ Compared
    /\ args.type = pcmk__type.unknown
    /\ args.l_val = NULL
    /\ args.r_val # NULL
    /\ result.cmp = -1

\* C12: every comparison returns -1, 0 or 1 and no other integer.
C12_OnlyMinusOneZeroOne ==
    Compared => result.cmp \in {-1, 0, 1}

\* whether the string str is an optional minus sign and then digits only
IsInteger(str) ==
    LET digits == IF (str # <<>>) /\ (Head(str) = "-") THEN Tail(str)
                  ELSE str
    IN  (digits # <<>>) /\ (\A i \in DOMAIN digits : isdigit(digits[i]))

IntegerOf(str) ==
    IF Head(str) = "-" THEN 0 - DecimalValue(Tail(str), 0)
    ELSE DecimalValue(str, 0)

Sign(n) == IF n < 0 THEN -1 ELSE IF n > 0 THEN 1 ELSE 0

IntegerCompared ==
    /\ Compared
    /\ args.type = pcmk__type.integer
    /\ args.l_val # NULL
    /\ args.r_val # NULL

\* C13: with both operands present and the type integer, two operands that
\* are integers are compared as numbers, any other operands compare as they
\* do with the type string, and the function is entered at most twice.
C13_IntegerOrStringFallback ==
    IntegerCompared =>
        /\ IF IsInteger(args.l_val[1]) /\ IsInteger(args.r_val[1])
           THEN result.cmp = Sign(IntegerOf(args.l_val[1])
                                  - IntegerOf(args.r_val[1]))
           ELSE result.cmp = pcmk__cmp_by_type(args.l_val, args.r_val,
                                               pcmk__type.string).cmp
        /\ result.calls <= 2

C13_Witness ==
    /\ IntegerCompared
    /\ IsInteger(args.r_val[1])
    /\ ~IsInteger(args.l_val[1])
    /\ result.cmp # 0
    /\ result.calls = 2

LowerString(str) == [i \in DOMAIN str |-> tolower(str[i])]

HasPoint(value) == (value # NULL) /\ (\E i \in DOMAIN value[1] :
                                          value[1][i] = ".")

\* the type the claim gives for a type token, an operator and two values
ExpectedType(type, op, value1, value2) ==
    IF type = NULL
    THEN IF op \in {pcmk__comparison.lt, pcmk__comparison.lte,
                    pcmk__comparison.gt, pcmk__comparison.gte}
         THEN IF HasPoint(value1) \/ HasPoint(value2)
              THEN pcmk__type.number
              ELSE pcmk__type.integer
         ELSE pcmk__type.string
    ELSE CASE LowerString(type[1]) = PCMK_VALUE_STRING -> pcmk__type.string
           [] LowerString(type[1]) = PCMK_VALUE_INTEGER -> pcmk__type.integer
           [] LowerString(type[1]) = PCMK_VALUE_NUMBER -> pcmk__type.number
           [] LowerString(type[1]) = PCMK_VALUE_VERSION -> pcmk__type.version
           [] OTHER -> pcmk__type.unknown

OperatorTokens == {PCMK_VALUE_DEFINED, PCMK_VALUE_NOT_DEFINED,
                   PCMK_VALUE_EQ, PCMK_VALUE_NE, PCMK_VALUE_LT,
                   PCMK_VALUE_LTE, PCMK_VALUE_GT, PCMK_VALUE_GTE}

\* C14: the type is selected by the type token when there is one, without
\* regard to case, and otherwise by the operator and the decimal points of
\* the values; an operator token that is absent or not an operator gives
\* the unknown comparison; both functions always give a value of their
\* enumeration.
C14_TypeAndOperatorParsing ==
    /\ Done("pcmk__parse_type") =>
           /\ result \in Types
           /\ result = ExpectedType(args.type, args.op, args.value1,
                                    args.value2)
    /\ Done("pcmk__parse_comparison") =>
           /\ result \in Comparisons
           /\ \/ args.op = NULL
              \/ LowerString(args.op[1]) \notin OperatorTokens
              => result = pcmk__comparison.unknown

C14_Witness ==
    /\ Done("pcmk__parse_type")
    /\ args.type = NULL
    /\ args.op = pcmk__comparison.gte
    /\ ~HasPoint(args.value1)
    /\ HasPoint(args.value2)
    /\ result = pcmk__type.number

(***************************************************************************)
(* Submatch expansion.                                                     *)
(***************************************************************************)
Replaced == Done("pcmk__replace_submatches")

\* the characters group n of the match stands for
GroupText(n) ==
    IF /\ n < args.nmatches
       /\ args.submatches[n + 1].rm_so >= 0
       /\ args.submatches[n + 1].rm_eo > args.submatches[n + 1].rm_so
    THEN SubSeq(args.match, args.submatches[n + 1].rm_so + 1,
                args.submatches[n + 1].rm_eo)
    ELSE <<>>

\* whether a %N sequence starts at position i of the template str
PlaceholderAt(str, i) ==
    (i < Len(str)) /\ (str[i] = "%") /\ isdigit(str[i + 1])

\* the template str from position i on with every %N replaced
RECURSIVE Expanded(_, _)
Expanded(str, i) ==
    IF i > Len(str) THEN <<>>
    ELSE IF PlaceholderAt(str, i)
    THEN GroupText(DigitValue[str[i + 1]]) \o Expanded(str, i + 2)
    ELSE <<str[i]>> \o Expanded(str, i + 1)

\* C15: a string that is returned is the template with each %N replaced by
\* the characters of group N when N is less than the number of groups and
\* the group matched something, and by nothing otherwise, every other
\* character being copied in order.
C15_PlaceholdersReplaced ==
    (Replaced /\ (result # NULL)) =>
        result[1] = Expanded(args.string[1], 1)

C15_Witness ==
    /\ Replaced
    /\ args.string = Ptr(<<"b", "a", "c", "k", "u", "p", "-", "%", "1">>)
    /\ args.match = <<"d", "b", "-", "p", "r", "o", "d">>
    /\ result = Ptr(<<"b", "a", "c", "k", "u", "p", "-", "p", "r", "o",
                      "d">>)

\* C16: nothing is returned exactly when the template is absent or empty
\* or the expansion would not differ from the template.
C16_NothingUnlessChanged ==
    Replaced =>
        ((result = NULL)
            <=> \/ args.string = NULL
                \/ Expanded(args.string[1], 1) = args.string[1])

(***************************************************************************)
(* Durations.                                                              *)
(***************************************************************************)
Unpacked ==
    /\ Done("pcmk__unpack_duration")
    /\ duration # NULL
    /\ start # NULL
    /\ end_in = Ptr(NULL)

\* the component's attribute is there and is not a number
Fails(component) ==
    (duration[1][component] # NULL) /\ ~IsInteger(duration[1][component][1])

\* the instant t after the components from the i-th on that do not fail
RECURSIVE AppliedFrom(_, _)
AppliedFrom(t, i) ==
    IF i > 7 THEN t
    ELSE LET component == <<"years", "months", "weeks", "days", "hours",
                            "minutes", "seconds">>[i]
             amount == duration[1][component]
         IN  IF (amount = NULL) \/ Fails(component)
             THEN AppliedFrom(t, i + 1)
             ELSE AppliedFrom(AddComponent(t, component,
                                           IntegerOf(amount[1])), i + 1)

\* C17: with a duration, a start and an empty end slot, the end is the
\* start with the components added in the order years, months, weeks, days,
\* hours, minutes, seconds, those that fail being left out; there always is
\* an end, and the return code is ok exactly when no component fails.
C17_FailingComponentsSkipped ==
    Unpacked =>
        /\ end # NULL
        /\ end = Ptr(AppliedFrom(start[1], 1))
        /\ (rc = pcmk_rc_ok)
               <=> ~\E i \in DOMAIN TimeComponents : Fails(TimeComponents[i])

C17_Witness ==
    /\ Unpacked
    /\ Fails("hours")
    /\ duration[1]["seconds"] = Ptr(<<"1">>)
    /\ end = Ptr(start[1] + 1)
    /\ rc # pcmk_rc_ok

(***************************************************************************)
(* The metadata cache.                                                     *)
(***************************************************************************)
Updated == Done("metadata_cache_update")

\* an update that cannot succeed
UpdateFails ==
    \/ args.mdc = NULL
    \/ args.rsc = NULL
    \/ args.metadata_str = NULL
    \/ ~args.metadata_str[1].valid
    \/ args.failing = "md"
    \/ /\ args.failing = "param"
       /\ \E i \in DOMAIN args.metadata_str[1].parameters :
              args.metadata_str[1].parameters[i].name # NULL

\* C18: the cache holds, for each (class, provider, type), what the last
\* update that succeeded since the last reset returned, and nothing for the
\* others; a get returns what the cache holds for its key; an update that
\* fails returns nothing.
C18_LatestSuccessfulUpdate ==
    /\ mdc = latest
    /\ (Done("metadata_cache_get") /\ (args.mdc # NULL) /\ (args.rsc # NULL))
           => result = IF RscKey(args.rsc[1]) \in DOMAIN latest
                       THEN Ptr(latest[RscKey(args.rsc[1])])
                       ELSE NULL
    /\ (Updated /\ UpdateFails) => (result = NULL)

C18_Witness ==
    /\ Updated
    /\ args.mdc # NULL
    /\ args.rsc # NULL
    /\ args.failing = "param"
    /\ result = NULL
    /\ RscKey(args.rsc[1]) \in DOMAIN mdc

\* the parameter elements of the metadata that have a name
NamedParameters ==
    SelectSeq(args.metadata_str[1].parameters, LAMBDA x : x.name # NULL)

DeclaredPrivate(param_xml) == crm_is_true(param_xml.private)

WellKnownNames == {<<"p", "a", "s", "s", "w", "o", "r", "d">>,
                   <<"p", "a", "s", "s", "w", "d">>, <<"u", "s", "e", "r">>}

\* C19: the record lists the named parameters, the last one first; when no
\* named parameter is declared private, those named password, passwd or
\* user are private and no other is; when one is declared private, the
\* private parameters are those declared private.
C19_PrivateParameters ==
    (Updated /\ (result # NULL)) =>
        LET named == NamedParameters
            n == Len(named)
            ra_params == result[1].ra_params
        IN  /\ Len(ra_params) = n
            /\ \A i \in 1..n :
                   /\ ra_params[(n + 1) - i].rap_name = named[i].name[1]
                   /\ (ra_param_private \in ra_params[(n + 1) - i].rap_flags)
                          <=> IF \E j \in 1..n : DeclaredPrivate(named[j])
                              THEN DeclaredPrivate(named[i])
                              ELSE named[i].name[1] \in WellKnownNames

C19_Witness ==
    /\ Updated
    /\ result # NULL
    /\ Len(args.metadata_str[1].parameters) = 2
    /\ \E i \in 1..2 :
           /\ args.metadata_str[1].parameters[i].name = NULL
           /\ DeclaredPrivate(args.metadata_str[1].parameters[i])
    /\ Len(result[1].ra_params) = 1
    /\ result[1].ra_params[1].rap_name = <<"u", "s", "e", "r">>
    /\ ra_param_private \in result[1].ra_params[1].rap_flags

(***************************************************************************)
(* What an evaluation leaves alone.                                        *)
(***************************************************************************)
\* the outcomes in which a candidate is merged into the hint
MergingOutcome ==
    /\ date_expression # NULL
    /\ now # NULL
    /\ \/ IsInRange /\ (rc = pcmk_rc_before_range)
       \/ IsInRange /\ (rc = pcmk_rc_within_range) /\ EndResolves
       \/ IsGt /\ (rc = pcmk_rc_before_range)
       \/ IsLt /\ (rc = pcmk_rc_within_range)

\* C20: an evaluation whose outcome is not in_range before_range, in_range
\* within_range with an end, gt before_range or lt within_range leaves
\* next_change as it was.
C20_HintLeftAlone ==
    (Done("pcmk__evaluate_date_expression") /\ ~MergingOutcome) =>
        next_change = hint_in

C20_Witness ==
    /\ Evaluated /\ IsLt /\ Resolves(EndAttr)
    /\ rc = pcmk_rc_after_range
    /\ hint_in # NULL
    /\ hint_in[1] > EndAttr[1].t
    /\ next_change = hint_in

\* C21: when pcmk__replace_submatches() returns a string, the size nbytes
\* the counting pass gave for the buffer is the number of bytes the fill
\* pass wrote plus one for the terminator, so every byte written lies
\* before index nbytes - 1 and the zeroed last byte terminates the result;
\* and the passes agree on whether anything was expanded.
C21_PassesAgree ==
    (Replaced /\ ~pcmk__str_empty(args.string))
        => LET counted == process_submatches(args.string[1], args.match,
                                             args.submatches, args.nmatches,
                                             NULL, Ptr(0))
               filled == process_submatches(args.string[1], args.match,
                                            args.submatches, args.nmatches,
                                            Ptr(<<>>), NULL)
           IN  /\ counted.expanded = filled.expanded
               /\ nbytes = counted.nbytes[1]
               /\ nbytes = Len(filled.expansion[1]) + 1
               /\ (result # NULL) => /\ result = filled.expansion
                                     /\ Len(result[1]) = nbytes - 1

\* "a%1" and the like: a literal character and a group of two characters
\* were written to a buffer of four bytes
C21_Witness ==
    /\ Replaced
    /\ result # NULL
    /\ Len(args.string[1]) = 3
    /\ Len(result[1]) = 3
    /\ result # args.string
    /\ nbytes = 4

====
